---------------------------- MODULE Spec2Model ----------------------------
(***************************************************************************)
(* A model of the blur engine of the liquidglass repository:               *)
(*   boxblur.cpp        box filter, triple box blur, resamplers and the    *)
(*                      downsample fast path;                              *)
(*   gauss_iir.cpp      the scalar recursive (Deriche) Gaussian;           *)
(*   gauss_iir_neon.cpp the 4-lane vectorized recursive Gaussian.          *)
(*                                                                         *)
(* A pixel buffer is a function from byte offsets 0..n-1 to bytes, indexed *)
(* as the code indexes it (y * stride + x * 4 + channel).  One behaviour   *)
(* of the model is one call of one entry point on a buffer the caller      *)
(* holds: the state before the call is kept in pre / preDst beside the     *)
(* state the call leaves.                                                  *)
(*                                                                         *)
(* Single precision values are fixed point numbers with 24 fraction bits   *)
(* (the width of a float's significand): F(x) = round(x * 2^24).  Every    *)
(* product and quotient is rounded to that grid where the code rounds to   *)
(* a float.  NaN is a value of its own.                                    *)
(***************************************************************************)
EXTENDS Integers, Sequences, FiniteSets, TLC

VARIABLES
    mem,      \* the bytes at the caller's pointer `base` (or `src`)
    ptrNull,  \* TRUE when the pointer handed to the call is null
    w,        \* width argument
    h,        \* height argument
    stride,   \* row stride argument, in bytes
    dstMem,   \* the bytes of a `dst` buffer distinct from `src`
    pre,      \* mem as it was when the call was made
    preDst,   \* dstMem as it was when the call was made
    call,     \* the call made: the entry point and its other arguments
    allocs,   \* number of scratch arrays the call allocated with new[]
    steps,    \* the passes the downsample fast path ran, in order
    neon,     \* NEON_AVAILABLE of the build
    samples,  \* a float array handed to the 1D recursive pass
    preSamples, \* samples as they were when the pass was invoked
    touched,  \* the coordinates a resampler read and wrote
    heap,     \* what the call did with its new[] arrays, in order
    disp,     \* the bytes of the displacement map handed to the call
    jni,      \* what a JNI entry point did with its bitmaps, in order
    threads,  \* the calls running on threads of their own, and how far each is
    scratch   \* the new[] arrays of the calls running on threads

vars == <<mem, ptrNull, w, h, stride, dstMem, pre, preDst, call, allocs, steps,
          neon, samples, preSamples, touched, heap, disp, jni,
          threads, scratch>>

Min(a, b) == IF a < b THEN a ELSE b

Max(a, b) == IF a > b THEN a ELSE b

AbsI(a) == IF a < 0 THEN -a ELSE a

\* f itself, held as a table of its values rather than as the rule that
\* computes them, so that no element is computed twice.
Tab(f) == f @@ << >>

---------------------------------------------------------------------------
(* boxblur.cpp: the sliding-window box filter                              *)

\* A variant of BoxAvg that the properties must tell from it: the average
\* over diameter + 1 samples.
BoxAvgWide(sum, diameter) == (2 * sum + diameter + 1) \div (2 * (diameter + 1))

\* static_cast<uint8_t>(sum * inv + 0.5f) with inv = 1.0f / diameter.  The
\* diameter is odd, so sum / diameter is never within 1 / (2 * diameter) of
\* a half and the float result is the integer rounding below.
BoxAvg(sum, diameter) == (2 * sum + diameter) \div (2 * diameter)

\* A variant of InitSumH that the properties must tell from it: a
\* coordinate left of the first pixel or right of the last one wraps around
\* to the opposite edge.
RECURSIVE InitSumHWrap(_, _, _, _, _, _)
InitSumHWrap(src, rowOff, ww, ch, i, last) ==
    IF i > last THEN 0
    ELSE IF i = last THEN src[rowOff + (i % ww) * 4 + ch]
    ELSE InitSumHWrap(src, rowOff, ww, ch, i, i + (last - i) \div 2)
         + InitSumHWrap(src, rowOff, ww, ch, i + (last - i) \div 2 + 1, last)

\* The initial accumulator of one channel of one row: the loop
\* for (i = -radius; i <= radius; ++i) with x = max(0, min(w - 1, i)),
\* its terms i .. last added up by halves of the range.  A range that lies
\* left of the first pixel or right of the last one adds the same byte
\* last - i + 1 times.
RECURSIVE InitSumH(_, _, _, _, _, _)
InitSumH(src, rowOff, ww, ch, i, last) ==
    IF i > last THEN 0
    ELSE IF last <= 0 THEN (last - i + 1) * src[rowOff + ch]
    ELSE IF i >= ww - 1 THEN (last - i + 1) * src[rowOff + (ww - 1) * 4 + ch]
    ELSE IF i = last THEN src[rowOff + Max(0, Min(ww - 1, i)) * 4 + ch]
    ELSE LET mid == i + (last - i) \div 2
         IN  InitSumH(src, rowOff, ww, ch, i, mid)
             + InitSumH(src, rowOff, ww, ch, mid + 1, last)

\* A variant of SlideH that the properties must tell from it: the pixel
\* that enters the window is taken one place too far to the left.
RECURSIVE SlideHLate(_, _, _, _, _, _, _)
SlideHLate(src, rowOff, ww, radius, ch, x, sum) ==
    IF x >= ww THEN << >>
    ELSE << BoxAvg(sum, 2 * radius + 1) >>
         \o SlideHLate(src, rowOff, ww, radius, ch, x + 1,
                       sum + src[rowOff + Min(ww - 1, x + radius) * 4 + ch]
                           - src[rowOff + Max(0, x - radius) * 4 + ch])

\* The sliding loop of one channel of one row: the value written at x and
\* then the accumulator moved on by srcRow[xRight] - srcRow[xLeft].  The
\* result is the sequence of the bytes written at x, x + 1, .., w - 1.
RECURSIVE SlideH(_, _, _, _, _, _, _)
SlideH(src, rowOff, ww, radius, ch, x, sum) ==
    IF x >= ww THEN << >>
    ELSE LET xLeft  == Max(0, x - radius)
             xRight == Min(ww - 1, x + radius + 1)
         IN  << BoxAvg(sum, 2 * radius + 1) >>
             \o SlideH(src, rowOff, ww, radius, ch, x + 1,
                       sum + src[rowOff + xRight * 4 + ch]
                           - src[rowOff + xLeft * 4 + ch])

\* box_blur_h: every pixel byte of dst is written, the row padding is not.
box_blur_h(src, dst, ww, hh, st, radius) ==
    LET line(y, ch) == SlideH(src, y * st, ww, radius, ch, 0,
                              InitSumH(src, y * st, ww, ch, -radius, radius))
        rows == Tab([y \in 0 .. hh - 1 |-> Tab([ch \in 0 .. 3 |-> line(y, ch)])])
    IN  Tab([k \in DOMAIN dst |->
                IF k \div st < hh /\ k % st < ww * 4
                THEN rows[k \div st][(k % st) % 4][(k % st) \div 4 + 1]
                ELSE dst[k]])

\* The initial accumulator of one channel of one column.
RECURSIVE InitSumV(_, _, _, _, _, _, _)
InitSumV(src, x, hh, st, ch, i, last) ==
    IF i > last THEN 0
    ELSE IF last <= 0 THEN (last - i + 1) * src[x * 4 + ch]
    ELSE IF i >= hh - 1 THEN (last - i + 1) * src[(hh - 1) * st + x * 4 + ch]
    ELSE IF i = last THEN src[Max(0, Min(hh - 1, i)) * st + x * 4 + ch]
    ELSE LET mid == i + (last - i) \div 2
         IN  InitSumV(src, x, hh, st, ch, i, mid)
             + InitSumV(src, x, hh, st, ch, mid + 1, last)

RECURSIVE SlideV(_, _, _, _, _, _, _, _)
SlideV(src, x, hh, st, radius, ch, y, sum) ==
    IF y >= hh THEN << >>
    ELSE LET yTop    == Max(0, y - radius)
             yBottom == Min(hh - 1, y + radius + 1)
         IN  << BoxAvg(sum, 2 * radius + 1) >>
             \o SlideV(src, x, hh, st, radius, ch, y + 1,
                       sum + src[yBottom * st + x * 4 + ch]
                           - src[yTop * st + x * 4 + ch])

\* box_blur_v: the same filter down every column.
box_blur_v(src, dst, ww, hh, st, radius) ==
    LET line(x, ch) == SlideV(src, x, hh, st, radius, ch, 0,
                              InitSumV(src, x, hh, st, ch, -radius, radius))
        cols == Tab([x \in 0 .. ww - 1 |-> Tab([ch \in 0 .. 3 |-> line(x, ch)])])
    IN  Tab([k \in DOMAIN dst |->
                IF k \div st < hh /\ k % st < ww * 4
                THEN cols[(k % st) \div 4][(k % st) % 4][k \div st + 1]
                ELSE dst[k]])

\* new uint8_t[n]: n bytes that nothing has written yet.  Their contents
\* are whatever the heap held; the model fills them with one byte g that
\* the caller of this operator draws from Garbage.
NewBytes(n, g) == Tab([k \in 0 .. n - 1 |-> g])

\* box_blur_single_pass: src -> temp (horizontal), temp -> dst (vertical).
box_blur_single_pass(src, dst, ww, hh, st, radius, g) ==
    box_blur_v(box_blur_h(src, NewBytes(hh * st, g), ww, hh, st, radius),
               dst, ww, hh, st, radius)

\* A variant of InvalidArgs that the properties must tell from it: the
\* check without h <= 0.
InvalidArgsNoHeight(isNull, ww, hh, st) == isNull \/ ww <= 0 \/ st < ww * 4

\* The argument check every scalar entry point opens with:
\* if (!base || w <= 0 || h <= 0 || stride < w * 4) return;
InvalidArgs(isNull, ww, hh, st) == isNull \/ ww <= 0 \/ hh <= 0 \/ st < ww * 4

\* if (radius <= 0) return;
Box3RadiusTooSmall(radius) == radius <= 0

\* A variant of Box3ClampRadius that the properties must tell from it: the
\* radius taken as it is.
Box3KeepRadius(radius) == radius

\* if (radius > 50) radius = 50;
Box3ClampRadius(radius) == IF radius > 50 THEN 50 ELSE radius

\* memcpy(dstBuf, srcBuf, n)
Memcpy(dstBuf, srcBuf, n) ==
    Tab([k \in DOMAIN dstBuf |-> IF k < n THEN srcBuf[k] ELSE dstBuf[k]])

\* A variant of Box3Passes that the properties must tell from it: one pass
\* before the memcpy.
Box3OnePass(s, ww, hh, st, radius, g) ==
    Memcpy(s.base,
           box_blur_single_pass(s.base, s.temp, ww, hh, st, radius, g),
           hh * st)

\* The three passes of box3_rgba8888_inplace and the closing memcpy.  s is
\* the state between two passes: the two buffers and the number of the
\* pass to run next.
RECURSIVE Box3Passes(_, _, _, _, _, _)
Box3Passes(s, ww, hh, st, radius, g) ==
    IF s.pass = 1
    THEN \* first pass: base -> temp
         Box3Passes([pass |-> 2, base |-> s.base,
                     temp |-> box_blur_single_pass(s.base, s.temp, ww, hh, st,
                                                   radius, g)],
                    ww, hh, st, radius, g)
    ELSE IF s.pass = 2
    THEN \* second pass: temp -> base
         Box3Passes([pass |-> 3, temp |-> s.temp,
                     base |-> box_blur_single_pass(s.temp, s.base, ww, hh, st,
                                                   radius, g)],
                    ww, hh, st, radius, g)
    ELSE IF s.pass = 3
    THEN \* third pass: base -> temp
         Box3Passes([pass |-> 4, base |-> s.base,
                     temp |-> box_blur_single_pass(s.base, s.temp, ww, hh, st,
                                                   radius, g)],
                    ww, hh, st, radius, g)
    ELSE \* memcpy(base, temp, h * stride)
         Memcpy(s.base, s.temp, hh * st)

\* box3_rgba8888_inplace.  The result is the buffer on return and the
\* number of new[] the call made (its own temp and one in every pass).
box3_rgba8888_inplace(base, isNull, ww, hh, st, radius0, g) ==
    IF InvalidArgs(isNull, ww, hh, st) THEN [mem |-> base, allocs |-> 0]
    ELSE IF Box3RadiusTooSmall(radius0) THEN [mem |-> base, allocs |-> 0]
    ELSE [mem |-> Box3Passes([pass |-> 1, base |-> base,
                              temp |-> NewBytes(hh * st, g)],
                             ww, hh, st, Box3ClampRadius(radius0), g),
          allocs |-> 4]

---------------------------------------------------------------------------
(* Single precision arithmetic on the 2^-24 grid                           *)

Q == 2 ^ 24

HalfBits == 2 ^ 12

\* The value no comparison holds of (a float NaN).
NaN == -(2 ^ 30)

IsNaN(a) == a = NaN

\* round(a * b / 2^24) for a, b >= 0, by halves so that no partial product
\* leaves 31 bits.
MulU(a, b) ==
    LET ah == a \div HalfBits
        al == a % HalfBits
        bh == b \div HalfBits
        bl == b % HalfBits
    IN  ah * bh
        + ((ah * bl + al * bh) + (al * bl + (Q \div 2)) \div HalfBits) \div HalfBits

\* a * b
FMul(a, b) ==
    IF IsNaN(a) \/ IsNaN(b) THEN NaN
    ELSE (IF (a < 0) = (b < 0) THEN 1 ELSE -1) * MulU(AbsI(a), AbsI(b))

\* Long division, six quotient bits a step: n more steps of r / b below
\* acc (r < b < 2^25, so that 64 * r stays within 31 bits).
RECURSIVE DivBits(_, _, _, _)
DivBits(r, b, n, acc) ==
    IF n = 0 THEN << acc, r >>
    ELSE DivBits((64 * r) % b, b, n - 1, 64 * acc + (64 * r) \div b)

\* round(a * 2^24 / b) for a >= 0, b > 0
DivU(a, b) ==
    LET res == DivBits(a % b, b, 4, a \div b)
    IN  res[1] + (IF 2 * res[2] >= b THEN 1 ELSE 0)

\* a / b (b is never 0 where the code divides)
FDiv(a, b) ==
    IF IsNaN(a) \/ IsNaN(b) THEN NaN
    ELSE (IF (a < 0) = (b < 0) THEN 1 ELSE -1) * DivU(AbsI(a), AbsI(b))

FAdd(a, b) == IF IsNaN(a) \/ IsNaN(b) THEN NaN ELSE a + b

FSub(a, b) == IF IsNaN(a) \/ IsNaN(b) THEN NaN ELSE a - b

\* a < b, FALSE when either is NaN
FLt(a, b) == ~IsNaN(a) /\ ~IsNaN(b) /\ a < b

\* std::min(a, b) is (b < a) ? b : a and std::max(a, b) is (a < b) ? b : a
StdMin(a, b) == IF FLt(b, a) THEN b ELSE a

StdMax(a, b) == IF FLt(a, b) THEN b ELSE a

\* s * s <= x * 2^24, by halves (x <= 16.0, so no s above 2^26 qualifies)
SqLeq(s, x) ==
    LET sh == s \div HalfBits
        sl == s % HalfBits
        mid == 2 * sh * sl + (sl * sl) \div HalfBits
        hi == sh * sh + mid \div HalfBits
        lo == (mid % HalfBits) * HalfBits + ((sl * sl) % HalfBits)
    IN  s <= 2 ^ 26 /\ (hi < x \/ (hi = x /\ lo = 0))

\* The integer root of x * 2^24 below s + 16 * unit, found a hexadecimal
\* digit a step: the digit is the number of d in 1 .. 15 whose candidate
\* s + d * unit still squares to at most x * 2^24.
RECURSIVE SqrtDigits(_, _, _)
SqrtDigits(x, s, unit) ==
    IF unit < 1 THEN s
    ELSE SqrtDigits(x,
                    s + unit * Cardinality({d \in 1 .. 15 :
                                              SqLeq(s + d * unit, x)}),
                    unit \div 16)

\* sqrtf(x): NaN below zero, else the root rounded to the grid (x <= 4.0)
FSqrt(x) ==
    IF IsNaN(x) \/ x < 0 THEN NaN
    ELSE (SqrtDigits(4 * x, 0, 2 ^ 24) + 1) \div 2

\* static_cast<int>(f) for f >= 0: truncation
FTrunc(f) == f \div Q

\* f * 255.0f + 0.5f
Times255PlusHalf(f) ==
    IF IsNaN(f) THEN NaN
    ELSE IF f >= 0 THEN 255 * f + Q \div 2 ELSE -(255 * (-f)) + Q \div 2

\* static_cast<int>(max(0, min(255, f * 255.0f + 0.5f))): a NaN fails the
\* comparison inside std::min, which then yields its first argument, 255.
ToByteClamped(f) ==
    IF IsNaN(f) THEN 255
    ELSE IF f >= Q THEN 255
    ELSE IF f < 0 THEN 0
    ELSE (255 * (f \div HalfBits)
          + (255 * (f % HalfBits) + Q \div 2) \div HalfBits) \div HalfBits

\* v / 255.0f for a byte v
ByteToF(v) == DivU(v, 255)

---------------------------------------------------------------------------
(* gauss_iir.cpp: coefficients                                             *)

\* exp(-r) for 0 <= r < 1/16: the series 1 - r + r^2/2 - .. - r^5/120,
\* whose next term is below half a unit of the grid.
ExpSeries5(r, r2, r3, r4) ==
    Q - r + (r2 + 1) \div 2 - (r3 + 3) \div 6 + (r4 + 12) \div 24
      - (MulU(r4, r) + 60) \div 120

ExpSeries4(r, r2, r3) == ExpSeries5(r, r2, r3, MulU(r3, r))

ExpSeries3(r, r2) == ExpSeries4(r, r2, MulU(r2, r))

ExpSeries(r) == ExpSeries3(r, MulU(r, r))

\* exp(-n) for a natural n (below one unit of the grid from n = 18 on)
ExpNegInt(n) ==
    IF n > 17 THEN 0
    ELSE << 16777216, 6171993, 2270549, 835288, 307285, 113044, 41587, 15299,
            5628, 2070, 762, 280, 103, 38, 14, 5, 2, 1 >>[n + 1]

\* exp(-j / 16) for j in 0 .. 15
ExpNegSixteenth(j) ==
    << 16777216, 15760736, 14805841, 13908801, 13066109, 12274473, 11530801,
       10832185, 10175896, 9559370, 8980197, 8436114, 7924996, 7444844,
       6993784, 6570052 >>[j + 1]

\* expf(-a) for a >= 0: a = n + j / 16 + r
ExpNeg(a) ==
    LET f == a % Q
    IN  MulU(MulU(ExpNegInt(a \div Q), ExpNegSixteenth(f \div (2 ^ 20))),
             ExpSeries(f % (2 ^ 20)))

\* Sigma is held in hundredths: 1.695 / sigma is 169.5 / sigma100.
DericheAlpha(sigma) == DivU(1695, 10 * sigma)

\* The struct DericheCoeffs compute_deriche_coeffs returns, from its six
\* taps: coefp and coefn are the boundary gains.
DericheCoeffs(a0, a1, a2, a3, b1, b2) ==
    [a0 |-> a0, a1 |-> a1, a2 |-> a2, a3 |-> a3, b1 |-> b1, b2 |-> b2,
     coefp |-> FDiv(a0 + a1, Q + b1 + b2),
     coefn |-> FDiv(a2 + a3, Q + b1 + b2)]

\* The taps from alpha, ema, ema2 and the normalisation factor k.
DericheTaps(alpha, ema, ema2, k) ==
    DericheCoeffs(k, FMul(FMul(k, ema), alpha - Q),
                  FMul(FMul(k, ema), alpha + Q), -FMul(k, ema2),
                  -2 * ema, ema2)

\* k = (1 - ema)^2 / (1 + 2 * alpha * ema - ema2)
DericheGain(alpha, ema, ema2) ==
    DericheTaps(alpha, ema, ema2,
                FDiv(FMul(Q - ema, Q - ema), Q + 2 * FMul(alpha, ema) - ema2))

\* ema2 = ema * ema
DericheSquare(alpha, ema) == DericheGain(alpha, ema, FMul(ema, ema))

\* ema = exp(-alpha)
DericheExp(alpha) == DericheSquare(alpha, ExpNeg(alpha))

\* compute_deriche_coeffs
compute_deriche_coeffs(sigma) == DericheExp(DericheAlpha(sigma))

---------------------------------------------------------------------------
(* gauss_iir.cpp: the 1D recursive pass                                    *)

\* The loops of iir_filter_1d.  buf is the float array both pointers point
\* into, src and dst the offsets of the two pointers: a write through dst
\* is seen by every later read through src of the same element.

\* The state the causal loop leaves after the element i: dst[i] = yc, then
\* xp1 = xc, yp2 = yp1, yp1 = yc.
ForwardStep(s, dst, xc, yc) ==
    [buf |-> [s.buf EXCEPT ![dst + s.i] = yc],
     i |-> s.i + 1, xp1 |-> xc, yp1 |-> yc, yp2 |-> s.yp1]

\* The causal loop: s is the array, the index i and xp1, yp1, yp2.
RECURSIVE IirForward(_, _, _, _, _)
IirForward(s, src, dst, len, c) ==
    IF s.i >= len THEN s.buf
    ELSE IirForward(
           ForwardStep(s, dst, s.buf[src + s.i],
                       FSub(FSub(FAdd(FMul(c.a0, s.buf[src + s.i]),
                                      FMul(c.a1, s.xp1)),
                                 FMul(c.b1, s.yp1)),
                            FMul(c.b2, s.yp2))),
           src, dst, len, c)

\* The state the anticausal loop leaves after the element i: dst[i] += yc,
\* then xn2 = xn1, xn1 = xc, yn2 = yn1, yn1 = yc.
BackwardStep(s, dst, xc, yc) ==
    [buf |-> [s.buf EXCEPT ![dst + s.i] = FAdd(s.buf[dst + s.i], yc)],
     i |-> s.i - 1, xn1 |-> xc, xn2 |-> s.xn1, yn1 |-> yc, yn2 |-> s.yn1]

\* The anticausal loop: s is the array, the index i and xn1, xn2, yn1, yn2.
RECURSIVE IirBackward(_, _, _, _)
IirBackward(s, src, dst, c) ==
    IF s.i < 0 THEN s.buf
    ELSE IirBackward(
           BackwardStep(s, dst, s.buf[src + s.i],
                        FSub(FSub(FAdd(FMul(c.a2, s.xn1), FMul(c.a3, s.xn2)),
                                  FMul(c.b1, s.yn1)),
                             FMul(c.b2, s.yn2))),
           src, dst, c)

\* The first half of iir_filter_1d: yp1 = yp2 = src[0] * coefp, xp1 = src[0]
\* and the causal loop.
IirCausal(buf, src, dst, len, c) ==
    IirForward([buf |-> buf, i |-> 0, xp1 |-> buf[src],
                yp1 |-> FMul(buf[src], c.coefp),
                yp2 |-> FMul(buf[src], c.coefp)],
               src, dst, len, c)

\* The second half, on the array fwd the causal loop left: src[len - 1] is
\* read after that loop has run.
IirAnticausal(fwd, src, dst, len, c) ==
    IirBackward([buf |-> fwd, i |-> len - 1,
                 xn1 |-> fwd[src + len - 1], xn2 |-> fwd[src + len - 1],
                 yn1 |-> FMul(fwd[src + len - 1], c.coefn),
                 yn2 |-> FMul(fwd[src + len - 1], c.coefn)],
                src, dst, c)

\* iir_filter_1d(src, dst, len, c)
iir_filter_1d(buf, src, dst, len, c) ==
    IF len <= 0 THEN buf
    ELSE IirAnticausal(IirCausal(buf, src, dst, len, c), src, dst, len, c)

---------------------------------------------------------------------------
(* gauss_iir.cpp: colour conversion and the separable passes               *)

\* srgb * srgb * (srgb * 0.2 + 0.8f)
srgb_to_linear(srgb) ==
    FMul(FMul(srgb, srgb), FAdd(FMul(srgb, 3355443), 13421773))

\* x = sqrtf(linear); x * (1.0f - 0.2f * linear)
linear_to_srgb(linear) ==
    FMul(FSqrt(linear), FSub(Q, FMul(3355443, linear)))

\* The load of one pixel (bytes b, g, r, a) into floats << fr, fg, fb, fa >>.
LoadPixel(b, g, r, a, doLinear) ==
    LET fa == ByteToF(a)
        fr == ByteToF(r)
        fg == ByteToF(g)
        fb == ByteToF(b)
    IN  IF doLinear
        THEN IF fa > 16777     \* fa > 0.001f
             THEN << srgb_to_linear(FDiv(fr, fa)), srgb_to_linear(FDiv(fg, fa)),
                     srgb_to_linear(FDiv(fb, fa)), fa >>
             ELSE << 0, 0, 0, fa >>
        ELSE << fr, fg, fb, fa >>

\* fa = std::max(0.0f, std::min(1.0f, fa)): the alpha the write-back of
\* the scalar passes multiplies the colours by and stores.
AlphaFactor(fa0) == StdMax(0, StdMin(Q, fa0))

\* The write-back of one pixel: the bytes << b, g, r, a >> stored.
StorePixel(fr0, fg0, fb0, fa0, doLinear) ==
    LET fa == AlphaFactor(fa0)
        fr == IF doLinear THEN FMul(linear_to_srgb(fr0), fa) ELSE fr0
        fg == IF doLinear THEN FMul(linear_to_srgb(fg0), fa) ELSE fg0
        fb == IF doLinear THEN FMul(linear_to_srgb(fb0), fa) ELSE fb0
    IN  << ToByteClamped(fb), ToByteClamped(fg), ToByteClamped(fr),
           ToByteClamped(fa) >>

\* One scanline (off0 = y * stride, step = 4, len = w) or one column
\* (off0 = x * 4, step = stride, len = h): load into the four planes of the
\* work buffer, filter each plane onto itself, write back.

\* The load loop: plane p of the work buffer is buffer[p * len + i].
LoadLine(base, buffer, off0, step, len, doLinear) ==
    LET pxs == Tab([i \in 0 .. len - 1 |->
                      LoadPixel(base[off0 + i * step], base[off0 + i * step + 1],
                                base[off0 + i * step + 2],
                                base[off0 + i * step + 3], doLinear)])
    IN  Tab([k \in DOMAIN buffer |->
               IF k < 4 * len THEN pxs[k % len][(k \div len) + 1]
               ELSE buffer[k]])

\* The four calls iir_filter_1d(bufR, bufR, ..) .. iir_filter_1d(bufA, bufA, ..)
FilterPlanes(loaded, len, c) ==
    iir_filter_1d(
      iir_filter_1d(
        iir_filter_1d(
          iir_filter_1d(loaded, 0, 0, len, c),
          len, len, len, c),
        2 * len, 2 * len, len, c),
      3 * len, 3 * len, len, c)

\* The write-back loop, from the filtered work buffer.
StoreLine(base, filtered, off0, step, len, doLinear) ==
    LET out == Tab([i \in 0 .. len - 1 |->
                      StorePixel(filtered[i], filtered[len + i],
                                 filtered[2 * len + i], filtered[3 * len + i],
                                 doLinear)])
    IN  Tab([k \in DOMAIN base |->
               IF /\ k >= off0
                  /\ (k - off0) \div step < len
                  /\ (k - off0) % step < 4
               THEN out[(k - off0) \div step][((k - off0) % step) + 1]
               ELSE base[k]])

\* The state after line s.n, from the work buffer its filter left.
LineDone(s, filtered, off0, step, len, doLinear) ==
    [base |-> StoreLine(s.base, filtered, off0, step, len, doLinear),
     buffer |-> filtered, n |-> s.n + 1]

\* The body of the loop over the rows (or columns), for line s.n.
BlurLine(s, lineOff, step, len, c, doLinear) ==
    LineDone(s,
             FilterPlanes(LoadLine(s.base, s.buffer, s.n * lineOff, step, len,
                                   doLinear),
                          len, c),
             s.n * lineOff, step, len, doLinear)

\* The loop over the rows (or columns): s is the image, the work buffer
\* and the index n of the next line.
RECURSIVE BlurLines(_, _, _, _, _, _, _)
BlurLines(s, count, lineOff, step, len, c, doLinear) ==
    IF s.n >= count THEN s.base
    ELSE BlurLines(BlurLine(s, lineOff, step, len, c, doLinear),
                   count, lineOff, step, len, c, doLinear)

\* blur_horizontal: every row y, at y * stride, pixels 4 bytes apart
blur_horizontal(base, ww, hh, st, c, buffer, doLinear) ==
    BlurLines([base |-> base, buffer |-> buffer, n |-> 0],
              hh, st, 4, ww, c, doLinear)

\* blur_vertical: every column x, at x * 4, pixels stride bytes apart
blur_vertical(base, ww, hh, st, c, buffer, doLinear) ==
    BlurLines([base |-> base, buffer |-> buffer, n |-> 0],
              ww, 4, st, hh, c, doLinear)

\* new float[n]: never read before it is written
NewFloats(n) == Tab([k \in 0 .. n - 1 |-> NaN])

\* A variant of SigmaTooSmall that the properties must tell from it: the
\* comparison strict.
SigmaBelowTenth(sigma) == sigma < 10

\* if (sigma <= 0.1f) return;   (sigma in hundredths)
SigmaTooSmall(sigma) == sigma <= 10

\* if (sigma > 50.0f) sigma = 50.0f;
GaussClampSigma(sigma) == IF sigma > 5000 THEN 5000 ELSE sigma

\* The two passes of gaussian_iir_rgba8888_inplace, on one work buffer.
GaussPasses(base, ww, hh, st, c, buffer, doLinear) ==
    blur_vertical(blur_horizontal(base, ww, hh, st, c, buffer, doLinear),
                  ww, hh, st, c, buffer, doLinear)

\* gaussian_iir_rgba8888_inplace
gaussian_iir_rgba8888_inplace(base, isNull, ww, hh, st, sigma0, doLinear) ==
    IF InvalidArgs(isNull, ww, hh, st) THEN [mem |-> base, allocs |-> 0]
    ELSE IF SigmaTooSmall(sigma0) THEN [mem |-> base, allocs |-> 0]
    ELSE [mem |-> GaussPasses(base, ww, hh, st,
                              compute_deriche_coeffs(GaussClampSigma(sigma0)),
                              NewFloats(Max(ww, hh) * 4), doLinear),
          allocs |-> 1]

---------------------------------------------------------------------------
(* gauss_iir_neon.cpp: the 4-lane recursive Gaussian                       *)

\* A float32x4_t is a 4-tuple.
VDup(x) == << x, x, x, x >>

\* vld1q_f32(p)
VLoad(buf, off) == << buf[off], buf[off + 1], buf[off + 2], buf[off + 3] >>

\* vst1q_f32(p, v)
VStore(buf, off, v) ==
    [buf EXCEPT ![off] = v[1], ![off + 1] = v[2],
                ![off + 2] = v[3], ![off + 3] = v[4]]

\* vmulq_f32(a, b)
VMul(a, b) ==
    << FMul(a[1], b[1]), FMul(a[2], b[2]), FMul(a[3], b[3]), FMul(a[4], b[4]) >>

\* vaddq_f32(a, b)
VAdd(a, b) ==
    << FAdd(a[1], b[1]), FAdd(a[2], b[2]), FAdd(a[3], b[3]), FAdd(a[4], b[4]) >>

\* vmlaq_f32(acc, a, b) = acc + a * b
VMla(acc, a, b) == VAdd(acc, VMul(a, b))

\* lane-wise a - b
VSub(a, b) ==
    << FSub(a[1], b[1]), FSub(a[2], b[2]), FSub(a[3], b[3]), FSub(a[4], b[4]) >>

\* vmlsq_f32(acc, a, b) = acc - a * b
VMls(acc, a, b) == VSub(acc, VMul(a, b))

\* The state the causal loop of iir_filter_1d_neon leaves after pixel i
\* (the vector at i * 4).
ForwardStepNeon(s, dst, vxc, vyc) ==
    [buf |-> VStore(s.buf, dst + s.i * 4, vyc),
     i |-> s.i + 1, vxp1 |-> vxc, vyp1 |-> vyc, vyp2 |-> s.vyp1]

\* The causal loop: s is the array, i and vxp1, vyp1, vyp2.
RECURSIVE IirForwardNeon(_, _, _, _, _)
IirForwardNeon(s, src, dst, len, c) ==
    IF s.i >= len THEN s.buf
    ELSE IirForwardNeon(
           ForwardStepNeon(s, dst, VLoad(s.buf, src + s.i * 4),
                           VMls(VMls(VMla(VMul(VDup(c.a0),
                                               VLoad(s.buf, src + s.i * 4)),
                                          VDup(c.a1), s.vxp1),
                                     VDup(c.b1), s.vyp1),
                                VDup(c.b2), s.vyp2)),
           src, dst, len, c)

\* The state the anticausal loop leaves after pixel i.
BackwardStepNeon(s, dst, vxc, vyc) ==
    [buf |-> VStore(s.buf, dst + s.i * 4,
                    VAdd(VLoad(s.buf, dst + s.i * 4), vyc)),
     i |-> s.i - 1, vxn1 |-> vxc, vxn2 |-> s.vxn1,
     vyn1 |-> vyc, vyn2 |-> s.vyn1]

\* The anticausal loop of iir_filter_1d_neon.
RECURSIVE IirBackwardNeon(_, _, _, _)
IirBackwardNeon(s, src, dst, c) ==
    IF s.i < 0 THEN s.buf
    ELSE IirBackwardNeon(
           BackwardStepNeon(s, dst, VLoad(s.buf, src + s.i * 4),
                            VMls(VMls(VMla(VMul(VDup(c.a2), s.vxn1),
                                           VDup(c.a3), s.vxn2),
                                      VDup(c.b1), s.vyn1),
                                 VDup(c.b2), s.vyn2)),
           src, dst, c)

\* The first half of iir_filter_1d_neon.
IirCausalNeon(buf, src, dst, len, c) ==
    IirForwardNeon([buf |-> buf, i |-> 0, vxp1 |-> VLoad(buf, src),
                    vyp1 |-> VMul(VLoad(buf, src), VDup(c.coefp)),
                    vyp2 |-> VMul(VLoad(buf, src), VDup(c.coefp))],
                   src, dst, len, c)

\* The second half, on the array fwd the causal loop left.
IirAnticausalNeon(fwd, src, dst, len, c) ==
    IirBackwardNeon([buf |-> fwd, i |-> len - 1,
                     vxn1 |-> VLoad(fwd, src + (len - 1) * 4),
                     vxn2 |-> VLoad(fwd, src + (len - 1) * 4),
                     vyn1 |-> VMul(VLoad(fwd, src + (len - 1) * 4),
                                   VDup(c.coefn)),
                     vyn2 |-> VMul(VLoad(fwd, src + (len - 1) * 4),
                                   VDup(c.coefn))],
                    src, dst, c)

\* iir_filter_1d_neon(src, dst, len, c)
iir_filter_1d_neon(buf, src, dst, len, c) ==
    IF len <= 0 THEN buf
    ELSE IirAnticausalNeon(IirCausalNeon(buf, src, dst, len, c),
                           src, dst, len, c)

\* srgb_to_linear_neon, one lane: srgb2 * (0.8f + srgb * 0.2f)
srgb_to_linear_neon(srgb) ==
    FMul(FMul(srgb, srgb), FAdd(13421773, FMul(srgb, 3355443)))

\* The table lookup of the reciprocal square root estimate instruction
\* (RecipSqrtEstimate of the architecture manual): a is the operand scaled
\* into [0.25, 1) in units of 1/512, the result the estimate in units of
\* 1/256.  b is the first n from 512 on with a * (n + 1)^2 >= 2^28.
RecipSqrtEstimate(a0) ==
    LET a == IF a0 < 256 THEN a0 * 2 + 1 ELSE ((a0 \div 2) * 2 + 1) * 2
        b == CHOOSE n \in 512 .. 1024 :
                 /\ a * (n + 1) * (n + 1) >= 2 ^ 28
                 /\ (n = 512 \/ a * n * n < 2 ^ 28)
    IN  (b + 1) \div 2

\* The exponent n with x / 4^n in [0.25, 1), for x > 0 on the grid.
QuadExp(x) ==
    LET upper(n) == IF n >= 0 THEN Q * (4 ^ n) ELSE Q \div (4 ^ (-n))
    IN  CHOOSE n \in -11 .. 3 : x < upper(n) /\ 4 * x >= upper(n)

\* s * e * (3 - s * e * e) / 2 for the scaled operand s and its estimate e
SqrtNeonStep(s, e) ==
    FMul(FMul(s, e), (3 * Q - FMul(FMul(s, e), e)) \div 2)

\* The product for the scaled operand s = linear / 4^n, scaled back by 2^n.
SqrtNeonScaled(s, n) ==
    IF n >= 0
    THEN SqrtNeonStep(s, RecipSqrtEstimate(s \div (2 ^ 15)) * (2 ^ 16)) * (2 ^ n)
    ELSE (SqrtNeonStep(s, RecipSqrtEstimate(s \div (2 ^ 15)) * (2 ^ 16))
          + 2 ^ (-n - 1)) \div (2 ^ (-n))

\* linear = s * 4^n
SqrtNeonExp(linear, n) ==
    SqrtNeonScaled(IF n >= 0 THEN linear \div (4 ^ n) ELSE linear * (4 ^ (-n)), n)

\* linear * rsqrt with rsqrt = vrsqrteq_f32(linear) refined by one
\* vrsqrtsq_f32 step.  Zero gives infinity * 0 and a negative operand has
\* no estimate: NaN.  Otherwise linear = s * 4^n with s in [0.25, 1), the
\* estimate is e * 2^-n and the product is s * e * (3 - s * e * e) / 2 * 2^n.
SqrtNeon(linear) ==
    IF IsNaN(linear) \/ linear <= 0 THEN NaN
    ELSE SqrtNeonExp(linear, QuadExp(linear))

\* linear_to_srgb_neon, one lane: sqrt_linear * (1.0f - linear * 0.2f)
linear_to_srgb_neon(linear) ==
    FMul(SqrtNeon(linear), FSub(Q, FMul(linear, 3355443)))

\* v * inv255 with inv255 = 1.0f / 255.0f
ByteToFNeon(v) == v * 65793

\* The load of one pixel of the vectorized passes: << r, g, b, a >>.
LoadPixelNeon(pb, pg, pr, pa, doLinear) ==
    LET a == ByteToFNeon(pa)
        r == ByteToFNeon(pr)
        g == ByteToFNeon(pg)
        b == ByteToFNeon(pb)
    IN  IF doLinear /\ a > 167      \* a > 1e-5f
        THEN << FMul(srgb_to_linear_neon(FDiv(r, a)), a),
                FMul(srgb_to_linear_neon(FDiv(g, a)), a),
                FMul(srgb_to_linear_neon(FDiv(b, a)), a), a >>
        ELSE << r, g, b, a >>

\* static_cast<uint32_t>(f * 255.0f + 0.5f) for f clamped to [0, 1]
ToByteUnit(f) ==
    (255 * (f \div HalfBits)
     + (255 * (f % HalfBits) + Q \div 2) \div HalfBits) \div HalfBits

\* std::max(0.0f, std::min(1.0f, f))
Clamp01(f) == StdMax(0, StdMin(Q, f))

\* r *= a; g *= a; b *= a: the alpha the write-back of the vectorized
\* passes multiplies the colours by, a as the filter left it (the clamp of
\* a comes after the multiplication).
AlphaFactorNeon(a) == a

\* One colour lane of the write-back: un-premultiplied, converted and
\* premultiplied again where alpha > 1e-5f, in the linear mode.
StoreConvNeon(v, a, doLinear) ==
    IF doLinear /\ FLt(167, a)
    THEN FMul(linear_to_srgb_neon(FDiv(v, a)), AlphaFactorNeon(a))
    ELSE v

\* The write-back of one pixel of the vectorized passes: the bytes
\* << b, g, r, a >> of the 32 bit word stored.
StorePixelNeon(r0, g0, b0, a, doLinear) ==
    << ToByteUnit(Clamp01(StoreConvNeon(b0, a, doLinear))),
       ToByteUnit(Clamp01(StoreConvNeon(g0, a, doLinear))),
       ToByteUnit(Clamp01(StoreConvNeon(r0, a, doLinear))),
       ToByteUnit(Clamp01(a)) >>

\* One scanline or column of the vectorized passes: the work buffer holds
\* the pixels interleaved, r g b a.
LoadLineNeon(base, buffer, off0, step, len, doLinear) ==
    LET pxs == Tab([i \in 0 .. len - 1 |->
                      LoadPixelNeon(base[off0 + i * step],
                                    base[off0 + i * step + 1],
                                    base[off0 + i * step + 2],
                                    base[off0 + i * step + 3], doLinear)])
    IN  Tab([k \in DOMAIN buffer |->
               IF k < 4 * len THEN pxs[k \div 4][(k % 4) + 1]
               ELSE buffer[k]])

StoreLineNeon(base, filtered, off0, step, len, doLinear) ==
    LET out == Tab([i \in 0 .. len - 1 |->
                      StorePixelNeon(filtered[4 * i], filtered[4 * i + 1],
                                     filtered[4 * i + 2], filtered[4 * i + 3],
                                     doLinear)])
    IN  Tab([k \in DOMAIN base |->
               IF /\ k >= off0
                  /\ (k - off0) \div step < len
                  /\ (k - off0) % step < 4
               THEN out[(k - off0) \div step][((k - off0) % step) + 1]
               ELSE base[k]])

LineDoneNeon(s, filtered, off0, step, len, doLinear) ==
    [base |-> StoreLineNeon(s.base, filtered, off0, step, len, doLinear),
     buffer |-> filtered, n |-> s.n + 1]

BlurLineNeon(s, lineOff, step, len, c, doLinear) ==
    LineDoneNeon(s,
                 iir_filter_1d_neon(
                   LoadLineNeon(s.base, s.buffer, s.n * lineOff, step, len,
                                doLinear),
                   0, 0, len, c),
                 s.n * lineOff, step, len, doLinear)

RECURSIVE BlurLinesNeon(_, _, _, _, _, _, _)
BlurLinesNeon(s, count, lineOff, step, len, c, doLinear) ==
    IF s.n >= count THEN s.base
    ELSE BlurLinesNeon(BlurLineNeon(s, lineOff, step, len, c, doLinear),
                       count, lineOff, step, len, c, doLinear)

blur_horizontal_neon(base, ww, hh, st, c, rowBuf, doLinear) ==
    BlurLinesNeon([base |-> base, buffer |-> rowBuf, n |-> 0],
                  hh, st, 4, ww, c, doLinear)

blur_vertical_neon(base, ww, hh, st, c, colBuf, doLinear) ==
    BlurLinesNeon([base |-> base, buffer |-> colBuf, n |-> 0],
                  ww, 4, st, hh, c, doLinear)

\* A variant of has_neon_support that the properties must tell from it:
\* the query answers true in every build.
HasNeonSupportAlways(neonAvailable) == TRUE

\* has_neon_support(): NEON_AVAILABLE of the build
has_neon_support(neonAvailable) == neonAvailable

\* if (sigma <= 0.1f || w <= 0 || h <= 0 || !base) return;
NeonEarlyReturn(isNull, ww, hh, sigma) ==
    sigma <= 10 \/ ww <= 0 \/ hh <= 0 \/ isNull

\* The two passes of gaussian_iir_rgba8888_neon, on one work buffer.
NeonPasses(base, ww, hh, st, c, workBuf, doLinear) ==
    blur_vertical_neon(
      blur_horizontal_neon(base, ww, hh, st, c, workBuf, doLinear),
      ww, hh, st, c, workBuf, doLinear)

\* gaussian_iir_rgba8888_neon: an empty body when the build has no NEON.
gaussian_iir_rgba8888_neon(base, isNull, ww, hh, st, sigma, doLinear, neonAvailable) ==
    IF ~neonAvailable THEN [mem |-> base, allocs |-> 0]
    ELSE IF NeonEarlyReturn(isNull, ww, hh, sigma) THEN [mem |-> base, allocs |-> 0]
    ELSE [mem |-> NeonPasses(base, ww, hh, st, compute_deriche_coeffs(sigma),
                             NewFloats(Max(ww, hh) * 4), doLinear),
          allocs |-> 1]

---------------------------------------------------------------------------
(* Single precision values of the resamplers and of the downsample fast    *)
(* path, held exactly: a float is [s, m, e] with the value s * m * 2^e,    *)
(* s the sign (1 or -1) and m either 0 or a 24 bit significand.  Every     *)
(* operation rounds its exact result to nearest, ties to even.             *)

\* The number of bits of n, for 2^lo <= n < 2^hi, by bisection.
RECURSIVE BitsIn(_, _, _)
BitsIn(n, lo, hi) ==
    IF hi - lo = 1 THEN hi
    ELSE IF n < 2 ^ ((lo + hi) \div 2) THEN BitsIn(n, lo, (lo + hi) \div 2)
    ELSE BitsIn(n, (lo + hi) \div 2, hi)

\* The number of bits of n, for 1 <= n < 2^30.
Bits(n) == BitsIn(n, 0, 30)

F32Zero == [s |-> 1, m |-> 0, e |-> 0]

\* The float s * q * 2^e or its successor: q is the significand cut to 24
\* bits, r the bits cut off, half the weight of the first of them.
RoundCut(s, q, r, half, sticky, e) ==
    LET up == r > half \/ (r = half /\ (sticky \/ q % 2 = 1))
    IN  IF up /\ q + 1 = 2 ^ 24
        THEN [s |-> s, m |-> 2 ^ 23, e |-> e + 1]
        ELSE [s |-> s, m |-> IF up THEN q + 1 ELSE q, e |-> e]

\* RoundTo24 for an n of nb bits.
RoundBits(s, n, sticky, e, nb) ==
    IF nb <= 24
    THEN [s |-> s, m |-> n * 2 ^ (24 - nb), e |-> e - (24 - nb)]
    ELSE RoundCut(s, n \div 2 ^ (nb - 24), n % 2 ^ (nb - 24), 2 ^ (nb - 25),
                  sticky, e + nb - 24)

\* The float nearest to s * (n + f) * 2^e, where n < 2^30 and f is a
\* fraction in [0, 1) that is not 0 exactly when sticky.
RoundTo24(s, n, sticky, e) ==
    IF n = 0 THEN F32Zero ELSE RoundBits(s, n, sticky, e, Bits(n))

\* static_cast<float>(n) for an int n, |n| < 2^24
IntToF32(n) == RoundTo24(IF n < 0 THEN -1 ELSE 1, AbsI(n), FALSE, 0)

\* a / b with the quotient a * 2^k / b of 24 bits
F32DivScaled(a, b, k) ==
    LET q  == (a * 2 ^ k) \div b
        r  == (a * 2 ^ k) % b
        up == 2 * r > b \/ (2 * r = b /\ q % 2 = 1)
    IN  IF up /\ q + 1 = 2 ^ 24
        THEN [s |-> 1, m |-> 2 ^ 23, e |-> 1 - k]
        ELSE [s |-> 1, m |-> IF up THEN q + 1 ELSE q, e |-> -k]

\* k0 or, where a * 2^k0 / b has 23 bits only, k0 + 1
F32DivAt(a, b, k0) ==
    F32DivScaled(a, b,
                 IF (IF k0 >= 0 THEN a * 2 ^ k0 ELSE a \div 2 ^ (-k0)) < b * 2 ^ 23
                 THEN k0 + 1 ELSE k0)

\* static_cast<float>(a) / b for ints a >= 0 and 0 < b < 2^7: the quotient
\* of the two exact values, rounded once.  It is also the float that the
\* decimal literal a / b denotes (0.01f is F32DivInt(1, 100)).
F32DivInt(a, b) ==
    IF a = 0 THEN F32Zero
    ELSE F32DivAt(a, b, 23 + Bits(b) - Bits(a))

F32Neg(a) == [a EXCEPT !.s = -a.s]

\* |a| < |b|
F32MagLt(a, b) ==
    IF b.m = 0 THEN FALSE
    ELSE IF a.m = 0 THEN TRUE
    ELSE a.e < b.e \/ (a.e = b.e /\ a.m < b.m)

\* a < b
F32Lt(a, b) ==
    IF a.m = 0 /\ b.m = 0 THEN FALSE
    ELSE IF a.m = 0 THEN b.s = 1
    ELSE IF b.m = 0 THEN a.s = -1
    ELSE IF a.s # b.s THEN a.s = -1
    ELSE IF a.s = 1 THEN F32MagLt(a, b) ELSE F32MagLt(b, a)

\* std::min(a, b) and std::max(a, b) on floats
F32Min(a, b) == IF F32Lt(b, a) THEN b ELSE a

F32Max(a, b) == IF F32Lt(a, b) THEN b ELSE a

\* The product hi * 2^24 + lo cut to 30 bits and a sticky bit
F32MulCut(s, e, hi, lo) ==
    RoundTo24(s, hi * 64 + lo \div 2 ^ 18, lo % 2 ^ 18 # 0, e)

\* The product hh * 2^24 + mid * 2^12 + ll of two significands
F32MulParts(s, e, hh, mid, ll) ==
    F32MulCut(s, e,
              hh + mid \div HalfBits
                 + ((mid % HalfBits) * HalfBits + ll) \div Q,
              ((mid % HalfBits) * HalfBits + ll) % Q)

\* a * b: the 48 bit product by halves, its top 30 bits and a sticky bit
F32Mul(a, b) ==
    IF a.m = 0 \/ b.m = 0 THEN F32Zero
    ELSE F32MulParts(a.s * b.s, a.e + b.e + 18,
                     (a.m \div HalfBits) * (b.m \div HalfBits),
                     (a.m \div HalfBits) * (b.m % HalfBits)
                       + (a.m % HalfBits) * (b.m \div HalfBits),
                     (a.m % HalfBits) * (b.m % HalfBits))

\* a + b or a - (b + f), f a fraction in [0, 1) that is not 0 when sticky
F32AddCut(big, a, b, sticky, add) ==
    RoundTo24(big.s,
              IF add THEN a + b ELSE IF sticky THEN a - b - 1 ELSE a - b,
              sticky, big.e - 5)

\* big + small of one sign (add) or of opposite signs (~add), |big| >= |small|,
\* the result taking the sign of big: five guard bits and a sticky bit.
F32AddMag(big, small, add) ==
    IF big.e - small.e > 29
    THEN F32AddCut(big, big.m * 32, 0, small.m # 0, add)
    ELSE F32AddCut(big, big.m * 32,
                   (small.m * 32) \div 2 ^ (big.e - small.e),
                   (small.m * 32) % 2 ^ (big.e - small.e) # 0, add)

\* a + b
F32Add(a, b) ==
    IF a.m = 0 THEN b
    ELSE IF b.m = 0 THEN a
    ELSE F32AddMag(IF F32MagLt(a, b) THEN b ELSE a,
                   IF F32MagLt(a, b) THEN a ELSE b, a.s = b.s)

\* a - b
F32Sub(a, b) == F32Add(a, F32Neg(b))

\* static_cast<int>(a): truncation towards zero
F32Trunc(a) ==
    IF a.m = 0 \/ a.e < -30 THEN 0
    ELSE IF a.e >= 0 THEN a.s * a.m * 2 ^ a.e
    ELSE a.s * (a.m \div 2 ^ (-a.e))

---------------------------------------------------------------------------
(* boxblur.cpp: the resamplers                                             *)

F32Half == F32DivInt(1, 2)

\* static_cast<int>(i * scale) clamped to size - 1, the source coordinate
\* downsample_nearest reads for destination coordinate i.
NearestCoord(i, scale, srcSize) ==
    Min(F32Trunc(F32Mul(IntToF32(i), scale)), srcSize - 1)

\* The copy loop of downsample_nearest, from the tables srcX and srcY of
\* the source coordinates.
NearestCopy(src, dst, srcStride, dstWidth, dstHeight, dstStride, srcX, srcY) ==
    Tab([k \in DOMAIN dst |->
           IF k \div dstStride < dstHeight /\ k % dstStride < dstWidth * 4
           THEN src[srcY[k \div dstStride] * srcStride
                    + srcX[(k % dstStride) \div 4] * 4 + ((k % dstStride) % 4)]
           ELSE dst[k]])

\* The source coordinate of every destination coordinate 0 .. dstSize - 1,
\* with scale = static_cast<float>(srcSize) / dstSize.
NearestCoords(srcSize, dstSize) ==
    Tab([i \in 0 .. dstSize - 1 |->
           NearestCoord(i, F32DivInt(srcSize, dstSize), srcSize)])

\* downsample_nearest: every pixel byte of dst is written, padding is not.
downsample_nearest(src, dst, srcWidth, srcHeight, srcStride, dstWidth, dstHeight, dstStride) ==
    NearestCopy(src, dst, srcStride, dstWidth, dstHeight, dstStride,
                NearestCoords(srcWidth, dstWidth),
                NearestCoords(srcHeight, dstHeight))

\* What downsample_nearest touches: per destination column the source
\* column it reads, per destination row the source row, and the
\* destination pixels its two loops write.
TouchedNearest(srcX, srcY) ==
    [xs |-> Tab([x \in DOMAIN srcX |-> << srcX[x] >>]),
     ys |-> Tab([y \in DOMAIN srcY |-> << srcY[y] >>]),
     writes |-> (DOMAIN srcX) \X (DOMAIN srcY)]

\* static_cast<float>(v) of every byte v
ByteToF32 == Tab([v \in 0 .. 255 |-> IntToF32(v)])

\* The record of one coordinate of downsample_bilinear: the integer part
\* c0, the neighbour c1, the weight wt and 1.0f - wt.
CoordWeights(c0, c1, wt) ==
    [c0 |-> c0, c1 |-> c1, wt |-> wt, ct |-> F32Sub(IntToF32(1), wt)]

\* A variant of CoordAt that the properties must tell from it: past the
\* last pixel the neighbour wraps around to the first.
CoordAtWrap(pos, srcSize) ==
    CoordWeights(F32Trunc(pos), (F32Trunc(pos) + 1) % srcSize,
                 F32Sub(pos, IntToF32(F32Trunc(pos))))

\* x0 = static_cast<int>(pos), x1 = min(x0 + 1, size - 1), wx = pos - x0
CoordAt(pos, srcSize) ==
    CoordWeights(F32Trunc(pos), Min(F32Trunc(pos) + 1, srcSize - 1),
                 F32Sub(pos, IntToF32(F32Trunc(pos))))

\* The source coordinate of downsample_bilinear for destination coordinate
\* i: (i + 0.5f) * scale - 0.5f clamped to [0, size - 1].
BilinearCoord(i, scale, srcSize) ==
    CoordAt(F32Max(F32Zero,
                   F32Min(F32Sub(F32Mul(F32Add(IntToF32(i), F32Half), scale),
                                 F32Half),
                          IntToF32(srcSize - 1))),
            srcSize)

\* One channel of one pixel of downsample_bilinear: wx and wy are the
\* records of the two coordinates.
BilinearMix(p00, p10, p01, p11, wx, wy) ==
    F32Trunc(
      F32Add(
        F32Add(F32Mul(F32Add(F32Mul(ByteToF32[p00], wx.ct),
                             F32Mul(ByteToF32[p10], wx.wt)),
                      wy.ct),
               F32Mul(F32Add(F32Mul(ByteToF32[p01], wx.ct),
                             F32Mul(ByteToF32[p11], wx.wt)),
                      wy.wt)),
        F32Half))

\* Channel c of the pixel whose coordinates are wx and wy.
BilinearPixel(src, srcStride, wx, wy, c) ==
    BilinearMix(src[wy.c0 * srcStride + wx.c0 * 4 + c],
                src[wy.c0 * srcStride + wx.c1 * 4 + c],
                src[wy.c1 * srcStride + wx.c0 * 4 + c],
                src[wy.c1 * srcStride + wx.c1 * 4 + c], wx, wy)

\* The loop of downsample_bilinear, from the tables cx and cy of the
\* coordinates.
BilinearFill(src, dst, srcStride, dstWidth, dstHeight, dstStride, cx, cy) ==
    Tab([k \in DOMAIN dst |->
           IF k \div dstStride < dstHeight /\ k % dstStride < dstWidth * 4
           THEN BilinearPixel(src, srcStride, cx[(k % dstStride) \div 4],
                              cy[k \div dstStride], (k % dstStride) % 4)
           ELSE dst[k]])

\* The coordinate record of every destination coordinate 0 .. dstSize - 1.
BilinearCoords(srcSize, dstSize) ==
    Tab([i \in 0 .. dstSize - 1 |->
           BilinearCoord(i, F32DivInt(srcSize, dstSize), srcSize)])

\* downsample_bilinear
downsample_bilinear(src, dst, srcWidth, srcHeight, srcStride, dstWidth, dstHeight, dstStride) ==
    BilinearFill(src, dst, srcStride, dstWidth, dstHeight, dstStride,
                 BilinearCoords(srcWidth, dstWidth),
                 BilinearCoords(srcHeight, dstHeight))

\* What downsample_bilinear touches: per destination column the source
\* columns x0 and x1 of p00 .. p11, per destination row the source rows y0
\* and y1, and the destination pixels its two loops write.
TouchedBilinear(cx, cy) ==
    [xs |-> Tab([x \in DOMAIN cx |-> << cx[x].c0, cx[x].c1 >>]),
     ys |-> Tab([y \in DOMAIN cy |-> << cy[y].c0, cy[y].c1 >>]),
     writes |-> (DOMAIN cx) \X (DOMAIN cy)]

\* upsample_nearest: the same logic as downsample_nearest
upsample_nearest(src, dst, srcWidth, srcHeight, srcStride, dstWidth, dstHeight, dstStride) ==
    downsample_nearest(src, dst, srcWidth, srcHeight, srcStride,
                       dstWidth, dstHeight, dstStride)

\* upsample_bilinear: the same logic as downsample_bilinear
upsample_bilinear(src, dst, srcWidth, srcHeight, srcStride, dstWidth, dstHeight, dstStride) ==
    downsample_bilinear(src, dst, srcWidth, srcHeight, srcStride,
                        dstWidth, dstHeight, dstStride)

---------------------------------------------------------------------------
(* boxblur.cpp: the downsample fast path                                   *)

\* The float a caller passes for a parameter the model holds in
\* hundredths (radius 2500 is 25.0f, downscale 1 is 0.01f).
DecimalToF32(x100) ==
    IF x100 < 0 THEN F32Neg(F32DivInt(-x100, 100)) ELSE F32DivInt(x100, 100)

\* if (!src || !dst || width <= 0 || height <= 0 || stride < width * 4) return;
AdvInvalidArgs(srcNull, dstNull, ww, hh, st) ==
    srcNull \/ dstNull \/ ww <= 0 \/ hh <= 0 \/ st < ww * 4

\* downscale = std::max(0.01f, std::min(1.0f, downscale));
AdvClampDownscale(downscale) ==
    F32Max(F32DivInt(1, 100), F32Min(IntToF32(1), downscale))

\* radius = std::max(0.0f, std::min(25.0f, radius));
AdvClampRadius(radius) == F32Max(F32Zero, F32Min(IntToF32(25), radius))

\* A variant of AdvRadiusTooSmall that the properties must tell from it:
\* the short-circuit taken below 0.25 only.
AdvRadiusBelowQuarter(radius) == F32Lt(radius, F32DivInt(1, 4))

\* if (radius < 0.5f): the copy short-circuit
AdvRadiusTooSmall(radius) == F32Lt(radius, F32Half)

\* for (y = 0; y < height; ++y) memcpy(dst + y * stride, src + y * stride, width * 4);
CopyRows(src, dst, ww, hh, st) ==
    Tab([k \in DOMAIN dst |->
           IF k \div st < hh /\ k % st < ww * 4 THEN src[k] ELSE dst[k]])

\* A variant of SmallSize that the properties must tell from it: the
\* product truncated, not rounded.
SmallSizeTruncated(n, downscale) ==
    Max(1, F32Trunc(F32Mul(IntToF32(n), downscale)))

\* std::max(1, static_cast<int>(n * downscale + 0.5f))
SmallSize(n, downscale) ==
    Max(1, F32Trunc(F32Add(F32Mul(IntToF32(n), downscale), F32Half)))

\* A variant of AdvIntRadius that the properties must tell from it: the
\* scaled radius truncated, not rounded.
AdvIntRadiusTruncated(radius, downscale) ==
    Max(1, F32Trunc(F32Mul(radius, downscale)))

\* std::max(1, static_cast<int>(radius * downscale + 0.5f))
AdvIntRadius(radius, downscale) ==
    Max(1, F32Trunc(F32Add(F32Mul(radius, downscale), F32Half)))

\* The downsampling step: bilinear for hq, nearest otherwise.
AdvDownsample(hq, src, dst, srcWidth, srcHeight, srcStride, dstWidth, dstHeight, dstStride) ==
    IF hq
    THEN downsample_bilinear(src, dst, srcWidth, srcHeight, srcStride,
                             dstWidth, dstHeight, dstStride)
    ELSE downsample_nearest(src, dst, srcWidth, srcHeight, srcStride,
                            dstWidth, dstHeight, dstStride)

\* The upsampling step.
AdvUpsample(hq, src, dst, srcWidth, srcHeight, srcStride, dstWidth, dstHeight, dstStride) ==
    IF hq
    THEN upsample_bilinear(src, dst, srcWidth, srcHeight, srcStride,
                           dstWidth, dstHeight, dstStride)
    ELSE upsample_nearest(src, dst, srcWidth, srcHeight, srcStride,
                          dstWidth, dstHeight, dstStride)

\* One step of an entry point: the routine it calls, the size of the
\* image that routine writes and the radius it is given (0 where it takes
\* none).
Step(op, width, height, radius) ==
    [op |-> op, width |-> width, height |-> height, radius |-> radius]

\* The calls the fast path makes, in the order of the code.
AdvSteps(hq, ww, hh, smallWidth, smallHeight, intRadius) ==
    << Step(IF hq THEN "downsample_bilinear" ELSE "downsample_nearest",
            smallWidth, smallHeight, 0),
       Step("box_blur_single_pass", smallWidth, smallHeight, intRadius),
       Step(IF hq THEN "upsample_bilinear" ELSE "upsample_nearest", ww, hh, 0) >>

\* A variant of AdvDone that the properties must tell from it: a dst that
\* is src is left as it was.
AdvDoneKeepSrc(src, dst, alias, out, done) ==
    [src |-> src, dst |-> IF alias THEN dst ELSE out, allocs |-> 3,
     steps |-> done]

\* What the fast path returns with: out is the buffer the upsampling
\* wrote, done the calls made.
AdvDone(src, dst, alias, out, done) ==
    [src |-> IF alias THEN out ELSE src,
     dst |-> IF alias THEN dst ELSE out,
     allocs |-> 3,
     steps |-> done]

\* The three steps of the fast path: downsample into smallImage, blur into
\* blurredSmall, upsample into dst (which is src when the two alias).
AdvFastPath(src, dst, alias, ww, hh, st, smallWidth, smallHeight, intRadius, g, hq) ==
    AdvDone(src, dst, alias,
            AdvUpsample(hq,
                        box_blur_single_pass(
                          AdvDownsample(hq, src,
                                        NewBytes(smallHeight * smallWidth * 4, g),
                                        ww, hh, st,
                                        smallWidth, smallHeight, smallWidth * 4),
                          NewBytes(smallHeight * smallWidth * 4, g),
                          smallWidth, smallHeight, smallWidth * 4, intRadius, g),
                        IF alias THEN src ELSE dst,
                        smallWidth, smallHeight, smallWidth * 4, ww, hh, st),
            AdvSteps(hq, ww, hh, smallWidth, smallHeight, intRadius))

\* The body after the clamps of radius and downscale.
AdvClamped(src, dst, alias, ww, hh, st, radius, downscale, g, hq) ==
    IF AdvRadiusTooSmall(radius)
    THEN IF alias
         THEN [src |-> src, dst |-> dst, allocs |-> 0, steps |-> << >>]
         ELSE [src |-> src, dst |-> CopyRows(src, dst, ww, hh, st),
               allocs |-> 0, steps |-> << Step("memcpy", ww, hh, 0) >>]
    ELSE AdvFastPath(src, dst, alias, ww, hh, st,
                     SmallSize(ww, downscale), SmallSize(hh, downscale),
                     AdvIntRadius(radius, downscale), g, hq)

\* The body the two entry points share, hq choosing the resamplers.  src
\* and dst are the two buffers before the call, alias is dst == src (dst
\* is then not looked at).  The result holds both buffers on return, the
\* number of new[] made (two here, one in the blur pass) and the steps run.
AdvancedBoxBlur(src, dst, srcNull, dstNull, alias, ww, hh, st, radius100, downscale100, g, hq) ==
    IF AdvInvalidArgs(srcNull, dstNull, ww, hh, st)
    THEN [src |-> src, dst |-> dst, allocs |-> 0, steps |-> << >>]
    ELSE AdvClamped(src, dst, alias, ww, hh, st,
                    AdvClampRadius(DecimalToF32(radius100)),
                    AdvClampDownscale(DecimalToF32(downscale100)), g, hq)

\* advanced_box_blur_rgba8888: nearest-neighbour resampling
advanced_box_blur_rgba8888(src, dst, srcNull, dstNull, alias, ww, hh, st, radius100, downscale100, g) ==
    AdvancedBoxBlur(src, dst, srcNull, dstNull, alias, ww, hh, st, radius100, downscale100, g, FALSE)

\* advanced_box_blur_rgba8888_hq: bilinear resampling
advanced_box_blur_rgba8888_hq(src, dst, srcNull, dstNull, alias, ww, hh, st, radius100, downscale100, g) ==
    AdvancedBoxBlur(src, dst, srcNull, dstNull, alias, ww, hh, st, radius100, downscale100, g, TRUE)

---------------------------------------------------------------------------
(* The buffers and arguments a caller holds                                *)

\* Largest width and height of an image, in pixels.
MaxW == 3

MaxH == 3

\* Bytes of alignment padding at the end of a row.
Pads == {0, 4}

\* The value of every padding byte and of every byte of dst before a call.
PadByte == 90

DstFill == 9

\* Pixels, in memory order, premultiplied.
White == << 255, 255, 255, 255 >>

Black == << 0, 0, 0, 255 >>

Tint == << 64, 128, 32, 128 >>

Patterns == {"white", "tint", "impulse", "step", "ramp", "corner"}

\* The pixel at (x, y) of a ww x hh image of a pattern: one colour, one
\* colour with a different pixel in the middle, a vertical edge between two
\* colours, pixels of every opacity from transparent to opaque, or nothing
\* but one bright pixel in the corner (0, 0).
PatternPixel(pat, x, y, ww, hh) ==
    CASE pat = "white"   -> White
      [] pat = "tint"    -> Tint
      [] pat = "impulse" -> IF x = ww \div 2 /\ y = hh \div 2 THEN Black ELSE White
      [] pat = "step"    -> IF x < ww \div 2 THEN Black ELSE White
      [] pat = "ramp"    -> LET a == ((y * ww + x) * 85) % 256
                            IN  << a \div 2, a, a \div 4, a >>
      [] pat = "corner"  -> IF x = 0 /\ y = 0 THEN White ELSE << 0, 0, 0, 0 >>

\* The bytes of a ww x hh image with rows st bytes apart.
Image(pat, ww, hh, st) ==
    Tab([k \in 0 .. hh * st - 1 |->
           IF k % st < ww * 4
           THEN PatternPixel(pat, (k % st) \div 4, k \div st, ww, hh)[(k % 4) + 1]
           ELSE PadByte])

\* Arguments that do not describe the buffer: a null pointer, a width or a
\* height that is not positive, a stride shorter than a row.
Lies == {"null", "w0", "wneg", "h0", "hneg", "short"}

NoCall ==
    [fn |-> "none", radius |-> 0, sigma |-> 0, linearSpace |-> FALSE,
     downscale |-> 0, dst |-> "none", g |-> 0, dstWidth |-> 0, dstHeight |-> 0,
     fail |-> 0, exit |-> "return", scale |-> 0, offsets |-> << 0, 0, 0 >>,
     useBilinear |-> FALSE]

\* Nothing read or written by a resampler.
NoTouch == [xs |-> << >>, ys |-> << >>, writes |-> {}]

\* A buffer and the arguments that describe it.
ValidBuffer ==
    \E ww \in 1 .. MaxW, hh \in 1 .. MaxH, pad \in Pads, pat \in Patterns :
        /\ mem = Image(pat, ww, hh, ww * 4 + pad)
        /\ ptrNull = FALSE
        /\ w = ww
        /\ h = hh
        /\ stride = ww * 4 + pad

\* A buffer and arguments that do not describe it.
InvalidBuffer ==
    \E ww \in 1 .. MaxW, hh \in 1 .. MaxH, lie \in Lies :
        /\ lie = "short" => ww >= 2
        /\ mem = Image("tint", ww, hh, ww * 4)
        /\ ptrNull = (lie = "null")
        /\ w = (CASE lie = "w0" -> 0 [] lie = "wneg" -> -1 [] OTHER -> ww)
        /\ h = (CASE lie = "h0" -> 0 [] lie = "hneg" -> -1 [] OTHER -> hh)
        /\ stride = (IF lie = "short" THEN (ww - 1) * 4 ELSE ww * 4)

\* No call made yet.
NothingCalled ==
    /\ call = NoCall
    /\ allocs = 0
    /\ steps = << >>
    /\ pre = mem
    /\ dstMem = Tab([k \in DOMAIN mem |-> DstFill])
    /\ preDst = dstMem
    /\ samples = << >>
    /\ preSamples = << >>
    /\ touched = NoTouch
    /\ heap = << >>
    /\ disp = << >>
    /\ jni = << >>
    /\ threads = << >>
    /\ scratch = << >>

\* No call made yet, in a build with NEON.
Idle == NothingCalled /\ neon = TRUE

InitValid == ValidBuffer /\ Idle

InitInvalid == InvalidBuffer /\ Idle

Init == InitValid \/ InitInvalid

---------------------------------------------------------------------------
(* The calls                                                               *)

\* What new[] may hold before it is written.
Garbage == {0, 170}

\* int radius of box3_rgba8888_inplace
Radii == {-1, 0, 1, 2, 50, 51, 1000}

\* float sigma, in hundredths
Sigmas == {-100, 10, 100, 500, 5000, 6000}

\* float radius of the downsample fast path, in hundredths
AdvRadii == {-100, 49, 50, 150, 3000}

\* float downscale, in hundredths
Downscales == {-5, 50, 100, 150}

\* The caller's dst: src itself, another buffer, or null.
Dsts == {"alias", "distinct", "null"}

\* One thing done with an array: new[], a read or write ("use"), delete[],
\* or a new[] that throws std::bad_alloc.
Ev(op, buf) == [op |-> op, buf |-> buf]

\* box_blur_single_pass(src, dst, ..): temp is allocated, written by
\* box_blur_h, read by box_blur_v, and released.
PassScratch(temp, src, dst) ==
    << Ev("new", temp), Ev("use", src), Ev("use", temp), Ev("use", temp),
       Ev("use", dst), Ev("delete", temp) >>

\* box3_rgba8888_inplace past its early returns: temp, the three passes
\* with a temp of their own each, the memcpy, and the release.
Box3Scratch ==
    << Ev("new", "temp") >>
      \o PassScratch("pass1.temp", "base", "temp")
      \o PassScratch("pass2.temp", "temp", "base")
      \o PassScratch("pass3.temp", "base", "temp")
      \o << Ev("use", "temp"), Ev("use", "base"), Ev("delete", "temp") >>

\* Both entry points of the recursive Gaussian past their early returns:
\* the work buffer, the horizontal and the vertical pass, the release.
GaussScratch(buf) ==
    << Ev("new", buf), Ev("use", buf), Ev("use", buf), Ev("delete", buf) >>

\* Both entry points of the downsample fast path past the plain copy: the
\* two small images, downsample, blur, upsample, and the two releases.
AdvScratch ==
    << Ev("new", "smallImage"), Ev("new", "blurredSmall"),
       Ev("use", "src"), Ev("use", "smallImage") >>
      \o PassScratch("pass.temp", "smallImage", "blurredSmall")
      \o << Ev("use", "blurredSmall"), Ev("use", "dst"),
            Ev("delete", "smallImage"), Ev("delete", "blurredSmall") >>

\* What entry point fn does with its arrays once it allocates.
ScratchLog(fn) ==
    CASE fn = "box3" -> Box3Scratch
      [] fn = "single" -> PassScratch("temp", "src", "dst")
      [] fn = "gauss" -> GaussScratch("buffer")
      [] fn = "neon" -> GaussScratch("workBuf")
      [] fn \in {"advanced", "advanced_hq"} -> AdvScratch

\* The log of a call of fn that returned after n new[].
Returned(fn, n) == IF n = 0 THEN << >> ELSE ScratchLog(fn)

\* The number of new[] in a log.
News(log) == Cardinality({i \in DOMAIN log : log[i].op = "new"})

\* Where the k-th new[] of a log is.
NewAt(log, k) ==
    CHOOSE i \in DOMAIN log :
        /\ log[i].op = "new"
        /\ News(SubSeq(log, 1, i)) = k

\* The k-th new[] throws std::bad_alloc.  No function here has a handler
\* or an object with a destructor, so nothing runs after the throw.
FailAt(log, k) ==
    SubSeq(log, 1, NewAt(log, k) - 1) \o << Ev("bad_alloc", log[NewAt(log, k)].buf) >>

Frame ==
    UNCHANGED << ptrNull, w, h, stride, pre, preDst, neon, samples, preSamples,
                 touched, disp, jni, threads, scratch >>

\* box3_rgba8888_inplace(base, w, h, stride, radius)
Box3Call ==
    /\ call.fn = "none"
    /\ \E radius \in Radii, g \in Garbage :
         \E r \in {box3_rgba8888_inplace(mem, ptrNull, w, h, stride, radius, g)} :
             /\ mem' = r.mem
             /\ allocs' = r.allocs
             /\ call' = [NoCall EXCEPT !.fn = "box3", !.radius = radius, !.g = g]
    /\ heap' = Returned("box3", allocs')
    /\ steps' = << >>
    /\ UNCHANGED dstMem
    /\ Frame

\* box_blur_single_pass(src, dst, w, h, stride, radius), as its callers
\* call it: on buffers of h * stride bytes, with radius >= 1.
SinglePassCall ==
    /\ call.fn = "none"
    /\ ~InvalidArgs(ptrNull, w, h, stride)
    /\ \E radius \in {r \in Radii : 1 <= r /\ r <= 50}, g \in Garbage :
         /\ dstMem' = box_blur_single_pass(mem, dstMem, w, h, stride, radius, g)
         /\ call' = [NoCall EXCEPT !.fn = "single", !.radius = radius, !.g = g,
                                   !.dst = "distinct"]
    /\ allocs' = 1
    /\ heap' = Returned("single", 1)
    /\ steps' = << >>
    /\ UNCHANGED mem
    /\ Frame

\* gaussian_iir_rgba8888_inplace(base, w, h, stride, sigma, doLinear)
GaussCall ==
    /\ call.fn = "none"
    /\ \E sigma \in Sigmas, doLinear \in BOOLEAN :
         \E r \in {gaussian_iir_rgba8888_inplace(mem, ptrNull, w, h, stride,
                                                 sigma, doLinear)} :
             /\ mem' = r.mem
             /\ allocs' = r.allocs
             /\ call' = [NoCall EXCEPT !.fn = "gauss", !.sigma = sigma,
                                       !.linearSpace = doLinear]
    /\ heap' = Returned("gauss", allocs')
    /\ steps' = << >>
    /\ UNCHANGED dstMem
    /\ Frame

\* gaussian_iir_rgba8888_neon(base, w, h, stride, sigma, doLinear)
NeonCall ==
    /\ call.fn = "none"
    /\ \E sigma \in Sigmas, doLinear \in BOOLEAN :
         \E r \in {gaussian_iir_rgba8888_neon(mem, ptrNull, w, h, stride, sigma,
                                              doLinear, neon)} :
             /\ mem' = r.mem
             /\ allocs' = r.allocs
             /\ call' = [NoCall EXCEPT !.fn = "neon", !.sigma = sigma,
                                       !.linearSpace = doLinear]
    /\ heap' = Returned("neon", allocs')
    /\ steps' = << >>
    /\ UNCHANGED dstMem
    /\ Frame

\* The state a call of the downsample fast path leaves: r is what the
\* entry point fn returned with.
AdvReturn(r, fn, radius, downscale, dst, g) ==
    /\ mem' = r.src
    /\ dstMem' = r.dst
    /\ allocs' = r.allocs
    /\ heap' = Returned(fn, r.allocs)
    /\ steps' = r.steps
    /\ call' = [NoCall EXCEPT !.fn = fn, !.radius = radius,
                              !.downscale = downscale, !.dst = dst, !.g = g]
    /\ Frame

\* advanced_box_blur_rgba8888(src, dst, width, height, stride, radius, downscale).
\* The scratch arrays have no padding and are written in full before they
\* are read.
AdvCall ==
    /\ call.fn = "none"
    /\ \E radius \in AdvRadii, downscale \in Downscales, dst \in Dsts, g \in {0} :
         \E r \in {advanced_box_blur_rgba8888(mem, dstMem, ptrNull, dst = "null",
                       dst = "alias", w, h, stride, radius, downscale, g)} :
             AdvReturn(r, "advanced", radius, downscale, dst, g)

\* advanced_box_blur_rgba8888_hq(src, dst, width, height, stride, radius, downscale)
AdvHqCall ==
    /\ call.fn = "none"
    /\ \E radius \in AdvRadii, downscale \in Downscales, dst \in Dsts, g \in {0} :
         \E r \in {advanced_box_blur_rgba8888_hq(mem, dstMem, ptrNull, dst = "null",
                       dst = "alias", w, h, stride, radius, downscale, g)} :
             AdvReturn(r, "advanced_hq", radius, downscale, dst, g)

\* The parameters with which entry point fn gets as far as its new[].
ReachesNew(fn) ==
    CASE fn = "box3" ->
           {[NoCall EXCEPT !.fn = fn, !.radius = radius] :
              radius \in {r \in Radii : ~Box3RadiusTooSmall(r)}}
      [] fn = "single" ->
           {[NoCall EXCEPT !.fn = fn, !.radius = radius, !.dst = "distinct"] :
              radius \in {r \in Radii : 1 <= r /\ r <= 50}}
      [] fn \in {"gauss", "neon"} ->
           {[NoCall EXCEPT !.fn = fn, !.sigma = sigma] :
              sigma \in {sg \in Sigmas : ~SigmaTooSmall(sg)}}
      [] fn \in {"advanced", "advanced_hq"} ->
           {[NoCall EXCEPT !.fn = fn, !.radius = radius, !.downscale = 100,
                           !.dst = "distinct"] :
              radius \in {r \in AdvRadii : r >= 50}}

\* base of box3_rgba8888_inplace when its k-th new[] throws: the second
\* pass has written it once the third pass is entered.
Box3BaseAtThrow(base, ww, hh, st, radius, k) ==
    IF k < 4 THEN base
    ELSE box_blur_single_pass(
             box_blur_single_pass(base, NewBytes(hh * st, 0), ww, hh, st,
                                  radius, 0),
             base, ww, hh, st, radius, 0)

\* A call on a valid buffer in which the k-th new[] fails.  operator new[]
\* throws std::bad_alloc; the exception leaves the entry point and reaches
\* the caller ("throw"), or the build has no exceptions and the process
\* ends ("abort").  Every other buffer is written only after the last
\* new[] of its entry point.
BadAllocCall ==
    /\ call.fn = "none"
    /\ ~InvalidArgs(ptrNull, w, h, stride)
    /\ \E fn \in {"box3", "single", "gauss", "neon", "advanced", "advanced_hq"},
          k \in 1 .. 4, exit \in {"throw", "abort"} :
         /\ k <= News(ScratchLog(fn))
         /\ \E c \in ReachesNew(fn) :
              /\ call' = [c EXCEPT !.fail = k, !.exit = exit]
              /\ mem' = IF fn = "box3"
                        THEN Box3BaseAtThrow(mem, w, h, stride,
                                             Box3ClampRadius(c.radius), k)
                        ELSE mem
         /\ heap' = FailAt(ScratchLog(fn), k)
         /\ allocs' = k - 1
    /\ steps' = << >>
    /\ UNCHANGED dstMem
    /\ Frame

Next ==
    \/ Box3Call
    \/ SinglePassCall
    \/ GaussCall
    \/ NeonCall
    \/ AdvCall
    \/ AdvHqCall
    \/ BadAllocCall

\* Every entry point, on every buffer.
Spec == Init /\ [][Next]_vars

\* The entry points that check their arguments, given arguments that do
\* not describe the buffer.
NextArgs ==
    \/ Box3Call
    \/ GaussCall
    \/ NeonCall
    \/ AdvCall
    \/ AdvHqCall

SpecArgs == InitInvalid /\ [][NextArgs]_vars

\* boxblur.cpp: the box filter
NextBox ==
    \/ Box3Call
    \/ SinglePassCall

SpecBox == InitValid /\ [][NextBox]_vars

\* gauss_iir.cpp and gauss_iir_neon.cpp: the recursive Gaussian
NextGauss ==
    \/ GaussCall
    \/ NeonCall

SpecGauss == InitValid /\ [][NextGauss]_vars

\* The two scalar blurs that work in place
NextInplace ==
    \/ Box3Call
    \/ GaussCall

SpecInplace == InitValid /\ [][NextInplace]_vars

\* boxblur.cpp: the downsample fast path
NextAdv ==
    \/ AdvCall
    \/ AdvHqCall

SpecAdv == InitValid /\ [][NextAdv]_vars

\* The scalar entry points, which clamp their parameters
NextScalar ==
    \/ Box3Call
    \/ GaussCall
    \/ AdvCall
    \/ AdvHqCall

SpecScalar == InitValid /\ [][NextScalar]_vars

---------------------------------------------------------------------------
(* The 1D recursive pass on its own                                        *)

\* Longest scanline handed to the pass.
MaxLen == 3

\* The bytes a channel of a scanline is loaded from.
SampleBytes == {0, 128, 255}

\* sigma of the coefficients, in hundredths
IirSigmas == {16, 100, 500, 5000}

\* One plane of the work buffer of blur_horizontal: len floats, or the
\* work buffer of blur_horizontal_neon: len pixels of four floats each.
InitIir ==
    /\ \E len \in 1 .. MaxLen, lanes \in {1, 4} :
         /\ w = len
         /\ \E x \in [0 .. len - 1 -> SampleBytes] :
              samples = Tab([k \in 0 .. lanes * len - 1 |->
                               ByteToF(x[((k \div lanes) + (k % lanes)) % len])])
    /\ preSamples = samples
    /\ mem = << >>
    /\ dstMem = << >>
    /\ pre = << >>
    /\ preDst = << >>
    /\ ptrNull = FALSE
    /\ h = 1
    /\ stride = w * 4
    /\ call = NoCall
    /\ allocs = 0
    /\ steps = << >>
    /\ neon = TRUE
    /\ touched = NoTouch
    /\ heap = << >>
    /\ disp = << >>
    /\ jni = << >>
    /\ threads = << >>
    /\ scratch = << >>

FrameIir ==
    UNCHANGED << mem, ptrNull, w, h, stride, dstMem, pre, preDst, allocs, steps,
                 neon, preSamples, touched, heap, disp, jni,
                 threads, scratch >>

\* iir_filter_1d(buffer, buffer, w, c), as blur_horizontal and
\* blur_vertical invoke it
IirCall ==
    /\ call.fn = "none"
    /\ DOMAIN samples = 0 .. w - 1
    /\ \E sigma \in IirSigmas :
         /\ samples' = iir_filter_1d(samples, 0, 0, w, compute_deriche_coeffs(sigma))
         /\ call' = [NoCall EXCEPT !.fn = "iir_filter_1d", !.sigma = sigma]
    /\ FrameIir

\* iir_filter_1d_neon(rowBuf, rowBuf, w, c), as blur_horizontal_neon and
\* blur_vertical_neon invoke it
IirNeonCall ==
    /\ call.fn = "none"
    /\ DOMAIN samples = 0 .. 4 * w - 1
    /\ \E sigma \in IirSigmas :
         /\ samples' = iir_filter_1d_neon(samples, 0, 0, w, compute_deriche_coeffs(sigma))
         /\ call' = [NoCall EXCEPT !.fn = "iir_filter_1d_neon", !.sigma = sigma]
    /\ FrameIir

NextIir ==
    \/ IirCall
    \/ IirNeonCall

SpecIir == InitIir /\ [][NextIir]_vars


---------------------------------------------------------------------------
(* The resamplers on their own                                             *)

\* An image in which no two pixel bytes are equal.
Numbered(ww, hh, st) ==
    Tab([k \in 0 .. hh * st - 1 |->
           IF k % st < ww * 4
           THEN 4 * ((k \div st) * ww + (k % st) \div 4) + (k % 4) + 1
           ELSE 0])

\* Width and height of the images handed to a resampler: every size up to
\* MaxW x MaxH and one row long enough for a scale that is no ratio of
\* small numbers.
SrcSizes == ((1 .. MaxW) \X (1 .. MaxH)) \cup {<< 26, 1 >>}

DstSizes == ((1 .. MaxW) \X (1 .. MaxH)) \cup {<< 22, 1 >>}

ResampleBuffer ==
    \E size \in SrcSizes, pad \in Pads :
        /\ mem = Numbered(size[1], size[2], size[1] * 4 + pad)
        /\ ptrNull = FALSE
        /\ w = size[1]
        /\ h = size[2]
        /\ stride = size[1] * 4 + pad

InitResample == ResampleBuffer /\ Idle

\* The state a resampler leaves: out is the destination it wrote, of
\* size[1] x size[2] pixels with no padding, touch what it read and wrote.
ResampleReturn(fn, size, out, touch) ==
    /\ dstMem' = out
    /\ touched' = touch
    /\ call' = [NoCall EXCEPT !.fn = fn, !.dstWidth = size[1],
                              !.dstHeight = size[2], !.dst = "distinct"]
    /\ allocs' = 0
    /\ heap' = << >>
    /\ steps' = << >>
    /\ UNCHANGED << mem, ptrNull, w, h, stride, pre, preDst, neon, samples,
                    preSamples, disp, jni, threads, scratch >>

\* downsample_nearest(src, dst, ..), as the fast path calls it: onto an
\* image that is no larger than the source.
DownsampleNearestCall ==
    /\ call.fn = "none"
    /\ \E size \in DstSizes :
         /\ size[1] <= w /\ size[2] <= h
         /\ ResampleReturn("downsample_nearest", size,
                downsample_nearest(mem, NewBytes(size[1] * size[2] * 4, 0),
                                   w, h, stride, size[1], size[2], size[1] * 4),
                TouchedNearest(NearestCoords(w, size[1]),
                               NearestCoords(h, size[2])))

\* upsample_nearest(src, dst, ..): onto an image that is no smaller.
UpsampleNearestCall ==
    /\ call.fn = "none"
    /\ \E size \in DstSizes :
         /\ size[1] >= w /\ size[2] >= h
         /\ ResampleReturn("upsample_nearest", size,
                upsample_nearest(mem, NewBytes(size[1] * size[2] * 4, 0),
                                 w, h, stride, size[1], size[2], size[1] * 4),
                TouchedNearest(NearestCoords(w, size[1]),
                               NearestCoords(h, size[2])))

\* downsample_bilinear(src, dst, ..)
DownsampleBilinearCall ==
    /\ call.fn = "none"
    /\ \E size \in DstSizes :
         /\ size[1] <= w /\ size[2] <= h
         /\ ResampleReturn("downsample_bilinear", size,
                downsample_bilinear(mem, NewBytes(size[1] * size[2] * 4, 0),
                                    w, h, stride, size[1], size[2], size[1] * 4),
                TouchedBilinear(BilinearCoords(w, size[1]),
                                BilinearCoords(h, size[2])))

\* upsample_bilinear(src, dst, ..)
UpsampleBilinearCall ==
    /\ call.fn = "none"
    /\ \E size \in DstSizes :
         /\ size[1] >= w /\ size[2] >= h
         /\ ResampleReturn("upsample_bilinear", size,
                upsample_bilinear(mem, NewBytes(size[1] * size[2] * 4, 0),
                                  w, h, stride, size[1], size[2], size[1] * 4),
                TouchedBilinear(BilinearCoords(w, size[1]),
                                BilinearCoords(h, size[2])))

NextResample ==
    \/ DownsampleNearestCall
    \/ UpsampleNearestCall
    \/ DownsampleBilinearCall
    \/ UpsampleBilinearCall

SpecResample == InitResample /\ [][NextResample]_vars

---------------------------------------------------------------------------
(* Properties                                                              *)

\* The arguments describe a buffer the entry points accept.
ValidArgs == ~ptrNull /\ w > 0 /\ h > 0 /\ stride >= w * 4

\* The offsets of the pixel bytes of the image (the row padding left out).
PixelBytes == {k \in 0 .. h * stride - 1 : k % stride < w * 4}

\* Every pixel of buf holds the value of the first one.
Uniform(buf) == \A k \in PixelBytes : buf[k] = buf[k % 4]

\* buf and other hold the same pixels.
SamePixels(buf, other) == \A k \in PixelBytes : buf[k] = other[k]

\* Every channel of every pixel of buf is within tol of the one of other.
PixelsWithin(buf, other, tol) ==
    \A k \in PixelBytes : AbsI(buf[k] - other[k]) <= tol

\* The sum of |a[k] - b[k]| over the pixel bytes k in lo .. hi, by halves.
RECURSIVE SumAbsDiff(_, _, _, _)
SumAbsDiff(a, b, lo, hi) ==
    IF lo > hi THEN 0
    ELSE IF lo = hi
    THEN IF lo % stride < w * 4 THEN AbsI(a[lo] - b[lo]) ELSE 0
    ELSE SumAbsDiff(a, b, lo, lo + (hi - lo) \div 2)
         + SumAbsDiff(a, b, lo + (hi - lo) \div 2 + 1, hi)

\* C1: on a valid buffer, box3_rgba8888_inplace with radius <= 0 and
\* gaussian_iir_rgba8888_inplace with sigma <= 0.1 (either linearSpace)
\* return with every byte of the buffer equal to its value before the call.
C1_NoOpLeavesEveryByte ==
    (/\ ValidArgs
     /\ \/ call.fn = "box3" /\ call.radius <= 0
        \/ call.fn = "gauss" /\ call.sigma <= 10)
    => mem = pre

\* The Gaussian was called with sigma = 0.1 in the linear mode on an image
\* that has row padding and is not uniform.
C1_Witness ==
    /\ call.fn = "gauss" /\ call.sigma = 10 /\ call.linearSpace
    /\ ValidArgs /\ stride > w * 4 /\ ~Uniform(pre)
    /\ mem = pre

\* C2: box3_rgba8888_inplace, advanced_box_blur_rgba8888,
\* advanced_box_blur_rgba8888_hq and gaussian_iir_rgba8888_inplace, called
\* with a null pointer, w <= 0, h <= 0 or stride < w * 4, return without
\* writing a byte of the caller's buffers and without allocating, whatever
\* radius, sigma and downscale are.
C2_InvalidArgsNoWriteNoAlloc ==
    (/\ call.fn \in {"box3", "gauss", "advanced", "advanced_hq"}
     /\ \/ ptrNull \/ w <= 0 \/ h <= 0 \/ stride < w * 4
        \/ call.fn \in {"advanced", "advanced_hq"} /\ call.dst = "null")
    => mem = pre /\ dstMem = preDst /\ allocs = 0

\* The bilinear fast path was called with a stride below w * 4, a blurring
\* radius and a destination of its own.
C2_Witness ==
    /\ call.fn = "advanced_hq" /\ call.radius = 3000 /\ call.dst = "distinct"
    /\ ~ptrNull /\ w = 2 /\ h = 2 /\ stride < w * 4
    /\ mem = pre /\ dstMem = preDst /\ allocs = 0

\* C3: gaussian_iir_rgba8888_neon, called with stride < w * 4, a null
\* pointer or a dimension that is not positive, returns without mutating
\* any byte of the buffer.
C3_NeonValidatesLikeScalar ==
    (/\ call.fn = "neon"
     /\ ptrNull \/ w <= 0 \/ h <= 0 \/ stride < w * 4)
    => mem = pre

\* C4: on a valid buffer whose pixels all hold one value (b, g, r, a),
\* box3_rgba8888_inplace and a single box_blur_single_pass with any
\* radius >= 1 produce a buffer whose pixels all hold exactly (b, g, r, a).
C4_BoxKeepsUniformField ==
    /\ (call.fn = "box3" /\ call.radius >= 1 /\ ValidArgs /\ Uniform(pre))
       => SamePixels(mem, pre)
    /\ (call.fn = "single" /\ call.radius >= 1 /\ ValidArgs /\ Uniform(pre))
       => SamePixels(dstMem, pre)

\* The triple box blur ran with radius 2 on a 3 x 3 image of the tint.
C4_Witness ==
    /\ call.fn = "box3" /\ call.radius = 2
    /\ w = 3 /\ h = 3 /\ Uniform(pre)
    /\ << pre[0], pre[1], pre[2], pre[3] >> = Tint
    /\ allocs = 4 /\ SamePixels(mem, pre)

\* C5: on a valid buffer whose pixels all hold one value, for every sigma
\* in (0.1, 50] and linearSpace = false, gaussian_iir_rgba8888_inplace and
\* gaussian_iir_rgba8888_neon return a buffer in which every channel of
\* every pixel is within 1 of its input value.
C5_GaussianKeepsUniformField ==
    (/\ call.fn \in {"gauss", "neon"} /\ ~call.linearSpace
     /\ call.sigma > 10 /\ call.sigma <= 5000
     /\ ValidArgs /\ Uniform(pre))
    => PixelsWithin(mem, pre, 1)

\* The causal sweep over the samples x as they were handed to the pass:
\* y[i] = a0 * x[i] + a1 * x[i-1] - b1 * y[i-1] - b2 * y[i-2], with x[-1]
\* = x[0] and y[-1] = y[-2] = x[0] * coefp.  x[i] is sample i.
RECURSIVE CausalOf(_, _, _)
CausalOf(x, c, i) ==
    IF i < 0 THEN FMul(x[0], c.coefp)
    ELSE FSub(FSub(FAdd(FMul(c.a0, x[i]), FMul(c.a1, x[Max(i - 1, 0)])),
                   FMul(c.b1, CausalOf(x, c, i - 1))),
              FMul(c.b2, CausalOf(x, c, i - 2)))

\* The anticausal sweep over the same samples, n of them:
\* y[i] = a2 * x[i+1] + a3 * x[i+2] - b1 * y[i+1] - b2 * y[i+2], with the
\* samples past the end equal to x[n-1] and y[n] = y[n+1] = x[n-1] * coefn.
RECURSIVE AnticausalOf(_, _, _, _)
AnticausalOf(x, c, n, i) ==
    IF i >= n THEN FMul(x[n - 1], c.coefn)
    ELSE FSub(FSub(FAdd(FMul(c.a2, x[Min(i + 1, n - 1)]),
                        FMul(c.a3, x[Min(i + 2, n - 1)])),
                   FMul(c.b1, AnticausalOf(x, c, n, i + 1))),
              FMul(c.b2, AnticausalOf(x, c, n, i + 2)))

\* One 8-bit level on the grid of the samples.
ByteLevel == Q \div 255

\* C6: the value the 1D recursive pass writes for index i is
\* causal(x)[i] + anticausal(x)[i], both sweeps reading the samples x the
\* pass was handed, although source and destination are one array (here to
\* within one 8-bit level).
C6_PassIsSumOfBothSweeps ==
    /\ call.fn = "iir_filter_1d"
       => \A i \in 0 .. w - 1 :
            LET x == preSamples
                c    == compute_deriche_coeffs(call.sigma)
            IN  AbsI(samples[i] - (CausalOf(x, c, i) + AnticausalOf(x, c, w, i)))
                  <= ByteLevel
    /\ call.fn = "iir_filter_1d_neon"
       => \A i \in 0 .. w - 1, lane \in 0 .. 3 :
            LET x == [j \in 0 .. w - 1 |-> preSamples[4 * j + lane]]
                c    == compute_deriche_coeffs(call.sigma)
            IN  AbsI(samples[4 * i + lane]
                     - (CausalOf(x, c, i) + AnticausalOf(x, c, w, i)))
                  <= ByteLevel

\* The pixels of buf are all equal except the one at (px, py).
ImpulseAt(buf, px, py) ==
    LET at(x, y) == << buf[y * stride + x * 4], buf[y * stride + x * 4 + 1],
                       buf[y * stride + x * 4 + 2], buf[y * stride + x * 4 + 3] >>
        others   == {at(x, y) : x \in 0 .. w - 1, y \in 0 .. h - 1}
                      \ {at(px, py)}
    IN  Cardinality(others) = 1

\* C7: for a buffer whose pixels are all equal except one pixel p away
\* from the borders, after gaussian_iir_rgba8888_inplace(sigma = 5,
\* linearSpace = false) the outputs at p + (dx, dy), p + (-dx, dy),
\* p + (dx, -dy) and p + (-dx, -dy) differ by at most 1 per channel, for
\* every offset for which the four positions are inside the image.
C7_ImpulseResponseSymmetric ==
    (call.fn = "gauss" /\ call.sigma = 500 /\ ~call.linearSpace /\ ValidArgs)
    => \A px \in 1 .. w - 2, py \in 1 .. h - 2 :
         ImpulseAt(pre, px, py)
         => \A dx \in 0 .. Min(px, w - 1 - px), dy \in 0 .. Min(py, h - 1 - py),
               ch \in 0 .. 3 :
              LET out(sx, sy) ==
                      mem[(py + sy * dy) * stride + (px + sx * dx) * 4 + ch]
              IN  /\ AbsI(out(1, 1) - out(-1, 1)) <= 1
                  /\ AbsI(out(1, 1) - out(1, -1)) <= 1
                  /\ AbsI(out(1, 1) - out(-1, -1)) <= 1
                  /\ AbsI(out(-1, 1) - out(1, -1)) <= 1
                  /\ AbsI(out(-1, 1) - out(-1, -1)) <= 1
                  /\ AbsI(out(1, -1) - out(-1, -1)) <= 1

\* C8: for every valid buffer, every sigma both entry points accept and
\* either linearSpace, the buffer gaussian_iir_rgba8888_neon produces
\* differs from the one gaussian_iir_rgba8888_inplace produces on the same
\* input by at most 2 in every channel of every pixel.
C8_NeonWithinTwoOfScalar ==
    (call.fn = "neon" /\ call.sigma > 10 /\ ValidArgs)
    => PixelsWithin(mem,
                    gaussian_iir_rgba8888_inplace(pre, FALSE, w, h, stride,
                        call.sigma, call.linearSpace).mem,
                    2)

\* The left half of buf holds one pixel value and the right half another.
StepEdge(buf) ==
    /\ w >= 2
    /\ \A k \in PixelBytes :
         buf[k] = IF (k % stride) \div 4 < w \div 2
                  THEN buf[k % 4] ELSE buf[(w - 1) * 4 + (k % 4)]
    /\ \E ch \in 0 .. 3 : buf[ch] # buf[(w - 1) * 4 + ch]

\* C9: on a step-edge image, the output of box3_rgba8888_inplace with
\* radius r and the output of gaussian_iir_rgba8888_inplace with
\* sigma = r / 2 and linearSpace = false have a mean absolute per-channel
\* difference below 5.
C9_BoxMatchesGaussianOnStepEdge ==
    (/\ call.fn = "box3" /\ call.radius >= 1 /\ call.radius <= 50
     /\ ValidArgs /\ StepEdge(pre))
    => SumAbsDiff(mem,
                  gaussian_iir_rgba8888_inplace(pre, FALSE, w, h, stride,
                      50 * call.radius, FALSE).mem,
                  0, h * stride - 1)
         < 5 * Cardinality(PixelBytes)

\* What the fast path entry point fn leaves of pre and preDst when called
\* with the given radius and downscale: the two buffers.
AdvOutcome(fn, radius, downscale) ==
    LET r == IF fn = "advanced_hq"
             THEN advanced_box_blur_rgba8888_hq(pre, preDst, ptrNull,
                      call.dst = "null", call.dst = "alias", w, h, stride,
                      radius, downscale, call.g)
             ELSE advanced_box_blur_rgba8888(pre, preDst, ptrNull,
                      call.dst = "null", call.dst = "alias", w, h, stride,
                      radius, downscale, call.g)
    IN  << r.src, r.dst >>

\* C10: out-of-range parameters are clamped: box3 with a radius > 50 yields
\* the buffer of radius = 50, the scalar Gaussian with a sigma > 50 the
\* buffer of sigma = 50, the fast path (either entry point) with a radius
\* > 25 the buffers of radius = 25, with a radius < 0 those of radius = 0,
\* with a downscale > 1 those of downscale = 1 and with a downscale < 0.01
\* those of downscale = 0.01.
C10_OutOfRangeIsClamped ==
    ValidArgs =>
    /\ (call.fn = "box3" /\ call.radius > 50)
       => SamePixels(mem, box3_rgba8888_inplace(pre, FALSE, w, h, stride, 50,
                                                call.g).mem)
    /\ (call.fn = "gauss" /\ call.sigma > 5000)
       => mem = gaussian_iir_rgba8888_inplace(pre, FALSE, w, h, stride, 5000,
                                              call.linearSpace).mem
    /\ (call.fn \in {"advanced", "advanced_hq"} /\ call.radius > 2500)
       => << mem, dstMem >> = AdvOutcome(call.fn, 2500, call.downscale)
    /\ (call.fn \in {"advanced", "advanced_hq"} /\ call.radius < 0)
       => << mem, dstMem >> = AdvOutcome(call.fn, 0, call.downscale)
    /\ (call.fn \in {"advanced", "advanced_hq"} /\ call.downscale > 100)
       => << mem, dstMem >> = AdvOutcome(call.fn, call.radius, 100)
    /\ (call.fn \in {"advanced", "advanced_hq"} /\ call.downscale < 1)
       => << mem, dstMem >> = AdvOutcome(call.fn, call.radius, 1)

\* The bilinear fast path was called with radius 30 and downscale 1.5 on a
\* 3 x 3 image and wrote a destination of its own.
C10_Witness ==
    /\ call.fn = "advanced_hq" /\ call.radius = 3000 /\ call.downscale = 150
    /\ call.dst = "distinct" /\ w = 3 /\ h = 3 /\ ~Uniform(pre)
    /\ dstMem # preDst /\ allocs = 3

\* C11: for every valid buffer and every sigma > 50,
\* gaussian_iir_rgba8888_neon produces the buffer that a call with
\* sigma = 50 produces on the same input.
C11_NeonClampsSigma ==
    (call.fn = "neon" /\ call.sigma > 5000 /\ ValidArgs)
    => mem = gaussian_iir_rgba8888_neon(pre, FALSE, w, h, stride, 5000,
                                        call.linearSpace, neon).mem

\* One box_blur_single_pass of the pixels of buf into a buffer of its own.
OnePass(buf, radius) ==
    box_blur_single_pass(buf, NewBytes(h * stride, 0), w, h, stride, radius, 0)

\* C12: box3_rgba8888_inplace with 1 <= radius <= 50 leaves in the pixel
\* area of base P(P(P(input))), P being one box_blur_single_pass with that
\* radius.
C12_Box3IsThreePasses ==
    (call.fn = "box3" /\ call.radius >= 1 /\ call.radius <= 50 /\ ValidArgs)
    => SamePixels(mem, OnePass(OnePass(OnePass(pre, call.radius), call.radius),
                               call.radius))

\* box3 with radius 2 has changed a 3 x 3 image that is not uniform.
C12_Witness ==
    /\ call.fn = "box3" /\ call.radius = 2 /\ w = 3 /\ h = 3
    /\ ~Uniform(pre) /\ ~SamePixels(mem, pre) /\ allocs = 4

\* The sum of line[clamp(i, 0, n - 1)] for i in first .. last, by halves
\* of the range.
RECURSIVE WindowSum(_, _, _, _)
WindowSum(line, n, first, last) ==
    IF first > last THEN 0
    ELSE IF first = last THEN line[Max(0, Min(n - 1, first))]
    ELSE WindowSum(line, n, first, first + (last - first) \div 2)
         + WindowSum(line, n, first + (last - first) \div 2 + 1, last)

\* sum / diameter rounded to the nearest integer
RoundedAvg(sum, diameter) == (2 * sum + diameter) \div (2 * diameter)

\* Channel ch of the row y of buf after the horizontal box filter, by the
\* direct definition.
DirectH(buf, y, ch, radius) ==
    LET line == Tab([x \in 0 .. w - 1 |-> buf[y * stride + x * 4 + ch]])
    IN  Tab([x \in 0 .. w - 1 |->
               RoundedAvg(WindowSum(line, w, x - radius, x + radius),
                          2 * radius + 1)])

\* Channel ch of the column x of rows (a table of rows) after the vertical
\* box filter, by the direct definition.
DirectV(rows, x, radius) ==
    LET line == Tab([y \in 0 .. h - 1 |-> rows[y][x]])
    IN  Tab([y \in 0 .. h - 1 |->
               RoundedAvg(WindowSum(line, h, y - radius, y + radius),
                          2 * radius + 1)])

\* C13: for every w >= 1, h >= 1 and radius >= 1, radius >= w and
\* radius >= h included, the value the horizontal pass writes at (x, y) is
\* round(S / (2 * radius + 1)), S the sum of src[clamp(i, 0, w - 1)] for i
\* in x - radius .. x + radius, and the vertical pass does the same over the
\* rows of what the horizontal pass wrote.
C13_SlidingWindowIsDirectSum ==
    (call.fn = "single" /\ call.radius >= 1 /\ ValidArgs)
    => \A ch \in 0 .. 3 :
         LET rows == Tab([y \in 0 .. h - 1 |-> DirectH(pre, y, ch, call.radius)])
         IN  \A x \in 0 .. w - 1 :
               LET col == DirectV(rows, x, call.radius)
               IN  \A y \in 0 .. h - 1 :
                     dstMem[y * stride + x * 4 + ch] = col[y]

\* One pass with radius 1 over a 3 x 3 image with an edge in it, and one
\* with a radius beyond both dimensions.
C13_Witness ==
    /\ call.fn = "single" /\ call.radius \in {1, 50} /\ w = 3 /\ h = 3
    /\ StepEdge(pre) /\ ~SamePixels(dstMem, pre)

\* buf is zero everywhere except a bright pixel at the corner (0, 0).
CornerImpulse(buf) ==
    /\ \A ch \in 0 .. 3 : buf[ch] > 0
    /\ \A k \in PixelBytes : k >= 4 => buf[k] = 0

\* The sum of channel ch of buf over the (2r + 1) x (2r + 1) window around
\* (0, 0) with the coordinates clamped to the image: the sums of the rows
\* -r .. r, each over the columns -r .. r.
CornerWindowSum(buf, ch, r) ==
    LET rowSum == Tab([y \in 0 .. h - 1 |->
                         WindowSum(Tab([x \in 0 .. w - 1 |->
                                          buf[y * stride + x * 4 + ch]]),
                                   w, -r, r)])
    IN  WindowSum(rowSum, h, -r, r)

\* C14: on an image that is zero except a bright value at the corner
\* (0, 0), one box_blur_single_pass with radius r writes at (0, 0) the
\* average over the (2r + 1) x (2r + 1) window whose coordinates are
\* clamped to the image, to within the unit the rounding of each of the
\* two passes can move it; no pixel of the opposite edge contributes.
C14_CornerIsReplicated ==
    (call.fn = "single" /\ call.radius >= 1 /\ ValidArgs /\ CornerImpulse(pre))
    => \A ch \in 0 .. 3 :
         AbsI(dstMem[ch]
              - RoundedAvg(CornerWindowSum(pre, ch, call.radius),
                           (2 * call.radius + 1) * (2 * call.radius + 1)))
           <= 1

\* One pass with radius 1 over a 3 x 3 image with a bright corner: the
\* corner pixel supplies 2 of the 3 taps in each direction.
C14_Witness ==
    /\ call.fn = "single" /\ call.radius = 1 /\ w = 3 /\ h = 3
    /\ CornerImpulse(pre) /\ pre[0] = 255 /\ dstMem[0] = 113

\* The call made was one of the two fast path entry points, on a valid
\* source and a destination that is not null.
AdvCalled ==
    call.fn \in {"advanced", "advanced_hq"} /\ ValidArgs /\ call.dst # "null"

\* The buffer the call wrote its result to: src itself when dst was src.
AdvOut == IF call.dst = "alias" THEN mem ELSE dstMem

\* C15: for the two fast path entry points with valid buffers, whenever
\* the clamped radius is < 0.5, every negative radius included, the pixel
\* bytes of every row of dst equal those of src on return, for a distinct
\* dst and for a dst that is src, and no resampling or blur pass is run.
C15_SmallRadiusIsPlainCopy ==
    (AdvCalled /\ call.radius < 50)
    => /\ SamePixels(AdvOut, pre)
       /\ mem = pre
       /\ \A i \in DOMAIN steps : steps[i].op = "memcpy"
       /\ allocs = 0

\* The bilinear fast path called with radius 0.49 and a dst of its own,
\* which now holds the pixels of a 3 x 3 source.
C15_Witness ==
    /\ call.fn = "advanced_hq" /\ call.radius = 49 /\ call.dst = "distinct"
    /\ w = 3 /\ h = 3 /\ ~Uniform(pre)
    /\ SamePixels(dstMem, pre) /\ dstMem # preDst

\* The downscale after the clamp to [0.01, 1] and the radius after the
\* clamp to [0, 25], in hundredths.
ClampedDownscale == Max(1, Min(100, call.downscale))

ClampedRadius == Max(0, Min(2500, call.radius))

\* max(1, round(n * downscale)), downscale the clamped one
RoundedSmall(n) == Max(1, (2 * n * ClampedDownscale + 100) \div 200)

\* C16: for a clamped radius >= 0.5 the fast path runs, in this order and
\* each once: a downsample of src to max(1, round(width * downscale)) x
\* max(1, round(height * downscale)), one box_blur_single_pass on the small
\* image with the integer radius max(1, round(radius * downscale)), and an
\* upsample into dst at the original size; nearest-neighbour for both
\* resamples in the fast variant, bilinear for both in the HQ variant.
C16_FastPathStepsInOrder ==
    (AdvCalled /\ call.radius >= 50)
    => LET hq == call.fn = "advanced_hq"
       IN  steps =
             << Step(IF hq THEN "downsample_bilinear" ELSE "downsample_nearest",
                     RoundedSmall(w), RoundedSmall(h), 0),
                Step("box_blur_single_pass", RoundedSmall(w), RoundedSmall(h),
                     Max(1, (2 * ClampedRadius * ClampedDownscale + 10000)
                              \div 20000)),
                Step(IF hq THEN "upsample_bilinear" ELSE "upsample_nearest",
                     w, h, 0) >>

\* The fast path with radius 30 (clamped to 25) and downscale 0.5 on a
\* 3 x 3 image: a 2 x 2 small image blurred with radius 13.
C16_Witness ==
    /\ call.fn = "advanced" /\ call.radius = 3000 /\ call.downscale = 50
    /\ call.dst = "distinct" /\ w = 3 /\ h = 3
    /\ Len(steps) = 3 /\ steps[2] = Step("box_blur_single_pass", 2, 2, 13)

\* C17: for every valid input, a call of either fast path entry point with
\* dst == src leaves the pixel bytes that the call with a distinct dst
\* leaves in dst on the same source.
C17_AliasedCallMatchesDistinct ==
    (AdvCalled /\ call.dst = "alias")
    => SamePixels(mem,
                  (IF call.fn = "advanced_hq"
                   THEN advanced_box_blur_rgba8888_hq(pre, preDst, FALSE, FALSE,
                            FALSE, w, h, stride, call.radius, call.downscale,
                            call.g)
                   ELSE advanced_box_blur_rgba8888(pre, preDst, FALSE, FALSE,
                            FALSE, w, h, stride, call.radius, call.downscale,
                            call.g)).dst)

\* The fast path called in place with radius 0.5 on a 3 x 3 image with an
\* edge in it, which it has changed.
C17_Witness ==
    /\ call.fn = "advanced" /\ call.dst = "alias" /\ call.radius = 50
    /\ call.downscale = 100 /\ w = 3 /\ h = 3 /\ StepEdge(pre)
    /\ ~SamePixels(mem, pre) /\ dstMem = preDst

\* C18: for all source and destination dimensions >= 1, upsampling and
\* downsampling alike, every destination pixel (x, y) of the
\* nearest-neighbour resampler is a copy of the four bytes of the source
\* pixel at (min(floor(x * srcW / dstW), srcW - 1),
\* min(floor(y * srcH / dstH), srcH - 1)).
C18_NearestCopiesMappedPixel ==
    call.fn \in {"downsample_nearest", "upsample_nearest"}
    => \A x \in 0 .. call.dstWidth - 1, y \in 0 .. call.dstHeight - 1,
          c \in 0 .. 3 :
         dstMem[y * call.dstWidth * 4 + x * 4 + c]
           = mem[Min((y * h) \div call.dstHeight, h - 1) * stride
                 + Min((x * w) \div call.dstWidth, w - 1) * 4 + c]

\* A resampler was called.
Resampled ==
    call.fn \in {"downsample_nearest", "upsample_nearest",
                 "downsample_bilinear", "upsample_bilinear"}

\* The coordinates read along one axis are inside the source, the second
\* of two is the first plus one held at the last pixel, and a position
\* (i + 0.5) * srcSize / dstSize - 0.5 outside [0, srcSize - 1] reads the
\* border pixel.
AxisClamped(coords, srcSize, dstSize) ==
    \A i \in DOMAIN coords :
        /\ \A n \in DOMAIN coords[i] : coords[i][n] \in 0 .. srcSize - 1
        /\ Len(coords[i]) = 2
           => /\ coords[i][2] = Min(coords[i][1] + 1, srcSize - 1)
              /\ (2 * i + 1) * srcSize - dstSize <= 0 => coords[i][1] = 0
              /\ (2 * i + 1) * srcSize - dstSize >= 2 * dstSize * (srcSize - 1)
                 => /\ coords[i][1] = srcSize - 1
                    /\ coords[i][2] = srcSize - 1

\* C19: for all source and destination dimensions >= 1, every source
\* coordinate the nearest and bilinear resamplers read (x0, x1, y0, y1 for
\* bilinear) lies in [0, srcW - 1] x [0, srcH - 1], every destination
\* write lies in [0, dstW - 1] x [0, dstH - 1] and inside the destination
\* buffer, and coordinates out of range are clamped to the border.
C19_ResamplersStayInBounds ==
    Resampled
    => /\ AxisClamped(touched.xs, w, call.dstWidth)
       /\ AxisClamped(touched.ys, h, call.dstHeight)
       /\ \A p \in touched.writes :
            /\ p[1] \in 0 .. call.dstWidth - 1
            /\ p[2] \in 0 .. call.dstHeight - 1
            /\ p[2] * call.dstWidth * 4 + p[1] * 4 + 3 \in DOMAIN dstMem

\* upsample_bilinear from 2 x 1 to 3 x 1: the first position is left of
\* the image and the last right of it, and both are held at the border.
C19_Witness ==
    /\ call.fn = "upsample_bilinear" /\ w = 2 /\ h = 1
    /\ call.dstWidth = 3 /\ call.dstHeight = 1
    /\ touched.xs[0] = << 0, 1 >> /\ touched.xs[2] = << 1, 1 >>
    /\ touched.ys[0] = << 0, 0 >>
    /\ Cardinality(touched.writes) = 3

\* Every array a log allocates is released exactly once, and is neither
\* read nor written after its release.
ReleasedOnce(log) ==
    \A i \in DOMAIN log :
        log[i].op = "new"
        => /\ Cardinality({j \in DOMAIN log :
                             log[j].op = "delete" /\ log[j].buf = log[i].buf}) = 1
           /\ \A j, k \in DOMAIN log :
                (log[j].op = "delete" /\ log[j].buf = log[i].buf
                   /\ log[k].op = "use" /\ log[k].buf = log[i].buf)
                => k < j

\* C20: at every entry point (box3, box_blur_single_pass, both fast-path
\* variants, the scalar and the vectorized Gaussian) and on every path on
\* which control returns to the caller (validation failure, early return,
\* normal return, a later new[] that fails), every scratch buffer the call
\* allocated is released exactly once and none is used after its release.
C20_ScratchReleasedOnEveryPath ==
    (call.fn \in {"box3", "single", "gauss", "neon", "advanced", "advanced_hq"}
       /\ call.exit # "abort")
    => ReleasedOnce(heap)

\* A call that returns normally makes as many new[] as its log holds.
AllocsAreLogged == call.exit = "return" => allocs = News(heap)

\* The buffers << src or base, dst >> the call of the state leaves of the
\* buffers src and dst when every new[] succeeds.
RunOn(src, dst) ==
    CASE call.fn = "box3" ->
           << box3_rgba8888_inplace(src, ptrNull, w, h, stride, call.radius,
                                    call.g).mem, dst >>
      [] call.fn = "single" ->
           << src, box_blur_single_pass(src, dst, w, h, stride, call.radius,
                                        call.g) >>
      [] call.fn = "gauss" ->
           << gaussian_iir_rgba8888_inplace(src, ptrNull, w, h, stride,
                  call.sigma, call.linearSpace).mem, dst >>
      [] call.fn = "neon" ->
           << gaussian_iir_rgba8888_neon(src, ptrNull, w, h, stride, call.sigma,
                  call.linearSpace, neon).mem, dst >>
      [] call.fn = "advanced" ->
           LET r == advanced_box_blur_rgba8888(src, dst, ptrNull,
                        call.dst = "null", call.dst = "alias", w, h, stride,
                        call.radius, call.downscale, call.g)
           IN  << r.src, r.dst >>
      [] call.fn = "advanced_hq" ->
           LET r == advanced_box_blur_rgba8888_hq(src, dst, ptrNull,
                        call.dst = "null", call.dst = "alias", w, h, stride,
                        call.radius, call.downscale, call.g)
           IN  << r.src, r.dst >>

\* The caller's buffers after the call of the state when every new[]
\* succeeds.
Completed == RunOn(pre, preDst)

\* C22: for every entry point and every way a call returns (normal
\* completion, validation failure, a scratch allocation that fails
\* part-way), the caller's buffers on return hold either the input or the
\* fully transformed result, never the image after some of the passes.
C22_AllOrNothing ==
    (call.fn \in {"box3", "single", "gauss", "neon", "advanced", "advanced_hq"}
       /\ call.exit # "abort")
    => \/ mem = pre /\ dstMem = preDst
       \/ << mem, dstMem >> = Completed

\* C23: with linearSpace = true, in the scalar and in the vectorized
\* passes, the filtered alpha that multiplies the colour channels of a
\* pixel on write-back lies in [0, 1]: it has been clamped before it is
\* used as the factor.  (The samples are those of the alpha channel of a
\* scanline after the 1D pass.)
C23_AlphaFactorIsClamped ==
    /\ call.fn = "iir_filter_1d"
       => \A i \in 0 .. w - 1 :
            AlphaFactor(samples[i]) >= 0 /\ AlphaFactor(samples[i]) <= Q
    /\ call.fn = "iir_filter_1d_neon"
       => \A i \in 0 .. w - 1 :
            FLt(167, samples[4 * i + 3])
            => /\ AlphaFactorNeon(samples[4 * i + 3]) >= 0
               /\ AlphaFactorNeon(samples[4 * i + 3]) <= Q

\* The four bytes of the pixel (x, y) of buf.
PixelAt(buf, x, y) ==
    << buf[y * stride + x * 4], buf[y * stride + x * 4 + 1],
       buf[y * stride + x * 4 + 2], buf[y * stride + x * 4 + 3] >>

\* C24: with linearSpace = true the vectorized path hands the recursion,
\* for every pixel, the samples the scalar path hands it (the colour
\* un-premultiplied and converted to linear, zero where alpha is at or
\* below the threshold, alpha as it is), and turns filtered samples into
\* bytes as the scalar path does (converted back, multiplied by the
\* clamped alpha); the two differ by no more than the square-root
\* approximation: one 8-bit level.
C24_NeonLinearSamplesMatchScalar ==
    (call.fn = "neon" /\ call.linearSpace /\ call.sigma > 10 /\ ValidArgs)
    => \A x \in 0 .. w - 1, y \in 0 .. h - 1 :
         LET p  == PixelAt(pre, x, y)
             sc == LoadPixel(p[1], p[2], p[3], p[4], TRUE)
             ne == LoadPixelNeon(p[1], p[2], p[3], p[4], TRUE)
             bs == StorePixel(sc[1], sc[2], sc[3], sc[4], TRUE)
             bn == StorePixelNeon(sc[1], sc[2], sc[3], sc[4], TRUE)
         IN  /\ \A ch \in 1 .. 4 : AbsI(ne[ch] - sc[ch]) <= ByteLevel
             /\ \A ch \in 1 .. 4 : AbsI(bn[ch] - bs[ch]) <= 1

\* The offsets of the row padding of the image.
PaddingBytes == {k \in 0 .. h * stride - 1 : k % stride >= w * 4}

\* buf with every padding byte replaced by another value.
Repadded(buf) ==
    Tab([k \in DOMAIN buf |-> IF k \in PaddingBytes THEN 255 - buf[k] ELSE buf[k]])

\* C28: for every valid buffer with stride > w * 4 and every entry point
\* (box3, both fast-path variants, the scalar and the vectorized Gaussian),
\* every padding byte of the caller's buffers has on return the value it
\* had before the call, and the pixels written are those the call writes
\* when the padding holds other values.
C28_PaddingIsNeverTouched ==
    (/\ call.fn \in {"box3", "gauss", "neon", "advanced", "advanced_hq"}
     /\ call.exit = "return" /\ ValidArgs /\ stride > w * 4)
    => /\ \A k \in PaddingBytes : mem[k] = pre[k] /\ dstMem[k] = preDst[k]
       /\ SamePixels(mem, RunOn(Repadded(pre), Repadded(preDst))[1])
       /\ SamePixels(dstMem, RunOn(Repadded(pre), Repadded(preDst))[2])

\* C29: with a downscale of 1, or one clamped to 1, and a clamped radius
\* >= 0.5, advanced_box_blur_rgba8888 and advanced_box_blur_rgba8888_hq
\* write exactly the pixels of one box_blur_single_pass over the source
\* with the radius max(1, round(radius)): both resamplers are the identity
\* between images of one size.
C29_FullScaleIsOneBoxPass ==
    (AdvCalled /\ call.radius >= 50 /\ call.downscale >= 100)
    => SamePixels(AdvOut,
                  OnePass(pre, Max(1, (2 * ClampedRadius + 100) \div 200)))

\* The bilinear fast path at full scale with radius 1.5 has blurred a
\* 3 x 3 image with an edge in it, using radius 2.
C29_Witness ==
    /\ call.fn = "advanced_hq" /\ call.radius = 150 /\ call.downscale = 100
    /\ call.dst = "distinct" /\ w = 3 /\ h = 3 /\ StepEdge(pre)
    /\ steps = << Step("downsample_bilinear", 3, 3, 0),
                  Step("box_blur_single_pass", 3, 3, 2),
                  Step("upsample_bilinear", 3, 3, 0) >>
    /\ ~SamePixels(dstMem, pre)

\* C30: the conversion pair of the linearSpace = true path is a round
\* trip: linear_to_srgb(srgb_to_linear(s)) = s for s = 0 and s = 1 and to
\* within 2% for the values in between, so that an opaque white or black
\* pixel taken through un-premultiply, sRGB -> linear, linear -> sRGB and
\* re-premultiply (the load and the write-back of a pass, the filter
\* leaving a constant signal as it is) comes back as the same bytes.
C30_ConversionRoundTrip ==
    (call.fn \in {"gauss", "neon"} /\ call.linearSpace /\ call.sigma > 10
       /\ ValidArgs)
    => /\ linear_to_srgb(srgb_to_linear(0)) = 0
       /\ linear_to_srgb(srgb_to_linear(Q)) = Q
       /\ \A k \in PixelBytes :
            AbsI(linear_to_srgb(srgb_to_linear(ByteToF(pre[k])))
                 - ByteToF(pre[k])) <= Q \div 50
       /\ \A x \in 0 .. w - 1, y \in 0 .. h - 1 :
            LET p  == PixelAt(pre, x, y)
                sc == LoadPixel(p[1], p[2], p[3], p[4], TRUE)
                ne == LoadPixelNeon(p[1], p[2], p[3], p[4], TRUE)
            IN  p \in {White, Black}
                => /\ call.fn = "gauss"
                      => StorePixel(sc[1], sc[2], sc[3], sc[4], TRUE) = p
                   /\ call.fn = "neon"
                      => StorePixelNeon(ne[1], ne[2], ne[3], ne[4], TRUE) = p

---------------------------------------------------------------------------
(* chromatic_aberration.cpp                                                *)

\* std::max(0, std::min(size - 1, static_cast<int>(pos + 0.5f)))
NearestClamped(pos, size) ==
    Max(0, Min(size - 1, F32Trunc(F32Add(pos, F32Half))))

\* sample_nearest_channel(pixels, width, height, stride, x, y, channelOffset)
sample_nearest_channel(pixels, width, height, st, x, y, c) ==
    pixels[NearestClamped(y, height) * st + NearestClamped(x, width) * 4 + c]

\* pos < 0.0f || pos >= size - 1.0f
OffGrid(pos, size) ==
    F32Lt(pos, F32Zero) \/ ~F32Lt(pos, F32Sub(IntToF32(size), IntToF32(1)))

\* x0 = static_cast<int>(pos), x1 = std::min(x0 + 1, size - 1), fx = pos - x0
SampleCoord(pos, size) ==
    CoordWeights(F32Trunc(pos), Min(F32Trunc(pos) + 1, size - 1),
                 F32Sub(pos, IntToF32(F32Trunc(pos))))

\* static_cast<uint8_t>(std::max(0.0f, std::min(255.0f, result + 0.5f)))
SampleByte(result) ==
    F32Trunc(F32Max(F32Zero, F32Min(IntToF32(255), F32Add(result, F32Half))))

\* c0 = c00 * (1.0f - fx) + c10 * fx, c1 likewise,
\* result = c0 * (1.0f - fy) + c1 * fy
SampleMix(c00, c10, c01, c11, fx, fy) ==
    SampleByte(
      F32Add(F32Mul(F32Add(F32Mul(ByteToF32[c00], fx.ct),
                           F32Mul(ByteToF32[c10], fx.wt)),
                    fy.ct),
             F32Mul(F32Add(F32Mul(ByteToF32[c01], fx.ct),
                           F32Mul(ByteToF32[c11], fx.wt)),
                    fy.wt)))

\* The four corners of sample_bilinear_channel and their mix.
SampleCorners(pixels, st, fx, fy, c) ==
    SampleMix(pixels[fy.c0 * st + fx.c0 * 4 + c],
              pixels[fy.c0 * st + fx.c1 * 4 + c],
              pixels[fy.c1 * st + fx.c0 * 4 + c],
              pixels[fy.c1 * st + fx.c1 * 4 + c], fx, fy)

\* sample_bilinear_channel(pixels, width, height, stride, x, y, channelOffset)
sample_bilinear_channel(pixels, width, height, st, x, y, c) ==
    IF OffGrid(x, width) \/ OffGrid(y, height)
    THEN pixels[NearestClamped(y, height) * st + NearestClamped(x, width) * 4 + c]
    ELSE SampleCorners(pixels, st, SampleCoord(x, width),
                       SampleCoord(y, height), c)

\* The greatest common divisor of a >= 0 and b > 0.
RECURSIVE Gcd(_, _)
Gcd(a, b) == IF a = 0 THEN b ELSE Gcd(b % a, a)

\* const float scaleFactor = scale / 255.0f, for a scale that is a whole
\* number from 0 to 255: the quotient in lowest terms, rounded once
ScaleFactor(scale) ==
    F32DivInt(scale \div Gcd(scale, 255), 255 \div Gcd(scale, 255))

\* (static_cast<float>(mapByte) - 128.0f) * scaleFactor
BaseDisplacement(mapByte, scaleFactor) ==
    F32Mul(F32Sub(ByteToF32[mapByte], IntToF32(128)), scaleFactor)

\* float rSrcX = x + baseDx + actualRedOffset, and the five like it
SrcCoord(i, base, offset) == F32Add(F32Add(IntToF32(i), base), offset)

\* The sample of one channel, by the method useBilinear selects.
SampleChannel(source, p, x, y, c) ==
    IF p.useBilinear
    THEN sample_bilinear_channel(source, p.width, p.height, p.sourceStride,
                                 x, y, c)
    ELSE sample_nearest_channel(source, p.width, p.height, p.sourceStride,
                                x, y, c)

\* The four bytes written for the pixel (x, y): b, g, r sampled at their
\* own positions, alpha taken from the source pixel.
AberrationPixel(source, p, x, y, baseDx, baseDy) ==
    << SampleChannel(source, p, SrcCoord(x, baseDx, p.blueOffset),
                     SrcCoord(y, baseDy, p.blueOffset), 0),
       SampleChannel(source, p, SrcCoord(x, baseDx, p.greenOffset),
                     SrcCoord(y, baseDy, p.greenOffset), 1),
       SampleChannel(source, p, SrcCoord(x, baseDx, p.redOffset),
                     SrcCoord(y, baseDy, p.redOffset), 2),
       source[y * p.sourceStride + x * 4 + 3] >>

\* outPixel[0 .. 3] = b, g, r, alpha
WritePixel(result, at, px) ==
    [result EXCEPT ![at] = px[1], ![at + 1] = px[2], ![at + 2] = px[3],
                   ![at + 3] = px[4]]

\* One iteration of the pixel loop: result after the pixel (x, y) is written.
AberrationStep(source, displacement, result, p, x, y) ==
    WritePixel(result, y * p.resultStride + x * 4,
      AberrationPixel(source, p, x, y,
        BaseDisplacement(displacement[y * p.displacementStride + x * 4],
                         p.scaleFactor),
        BaseDisplacement(displacement[y * p.displacementStride + x * 4 + 1],
                         p.scaleFactor)))

\* The pixel loop from pixel n on, rows outermost.  When result is the
\* same memory as source, every write is seen by the reads that follow.
RECURSIVE AberrationLoop(_, _, _, _, _, _)
AberrationLoop(source, displacement, result, aliased, p, n) ==
    IF n = p.width * p.height THEN result
    ELSE AberrationLoop(source, displacement,
           AberrationStep(IF aliased THEN result ELSE source, displacement,
                          result, p, n % p.width, n \div p.width),
           aliased, p, n + 1)

\* if (!source || !displacement || !result) return;
\* if (width <= 0 || height <= 0) return;
\* if (sourceStride < width * 4 || displacementStride < width * 4 ||
\*     resultStride < width * 4) return;
AberrationInvalidArgs(anyNull, p) ==
    \/ anyNull
    \/ p.width <= 0 \/ p.height <= 0
    \/ p.sourceStride < p.width * 4
    \/ p.displacementStride < p.width * 4
    \/ p.resultStride < p.width * 4

\* chromatic_aberration_rgba8888(source, displacement, result, width, ..):
\* the bytes at result on return.  aliased: result == source.
chromatic_aberration_rgba8888(source, displacement, result, aliased, anyNull, p) ==
    IF AberrationInvalidArgs(anyNull, p) THEN result
    ELSE Tab(AberrationLoop(source, displacement, result, aliased, p, 0))

\* float scale of the call
Scales == {0, 70, 255}

\* redOffset, greenOffset and blueOffset of the call, in hundredths: none,
\* the defaults, and a pixel either way
OffsetTriples == {<< 0, 0, 0 >>, << 0, -5, -10 >>, << 100, 0, -100 >>}

\* The R and G bytes of a displacement map: no displacement (128) and one
\* step either way.
DispBytes == {127, 128, 129}

\* A ww x hh displacement map without row padding, every pixel of it
\* (mapR, mapG, 0, 255).
DispMap(mapR, mapG, ww, hh) ==
    Tab([k \in 0 .. ww * hh * 4 - 1 |->
           CASE k % 4 = 0 -> mapR [] k % 4 = 1 -> mapG [] k % 4 = 2 -> 0
             [] OTHER -> 255])

\* The arguments of the call but the three pointers.
AberrationArgs(ww, hh, st, scale, offsets, useBilinear) ==
    [width |-> ww, height |-> hh, sourceStride |-> st,
     displacementStride |-> ww * 4, resultStride |-> st,
     scaleFactor |-> ScaleFactor(scale),
     redOffset |-> DecimalToF32(offsets[1]),
     greenOffset |-> DecimalToF32(offsets[2]),
     blueOffset |-> DecimalToF32(offsets[3]), useBilinear |-> useBilinear]

\* chromatic_aberration_rgba8888(src, displacement, result, w, h, ..) with
\* result a buffer of its own or result == src
AberrationCall ==
    /\ call.fn = "none"
    /\ \E mapR \in DispBytes, mapG \in DispBytes, scale \in Scales,
          offsets \in OffsetTriples, useBilinear \in BOOLEAN,
          dst \in {"distinct", "alias"} :
         /\ disp' = DispMap(mapR, mapG, w, h)
         /\ call' = [NoCall EXCEPT !.fn = "aberration", !.dst = dst,
                                   !.scale = scale, !.offsets = offsets,
                                   !.useBilinear = useBilinear]
         /\ \E out \in {chromatic_aberration_rgba8888(mem, disp',
                          IF dst = "alias" THEN mem ELSE dstMem,
                          dst = "alias", ptrNull,
                          AberrationArgs(w, h, stride, scale, offsets,
                                         useBilinear))} :
              /\ mem' = IF dst = "alias" THEN out ELSE mem
              /\ dstMem' = IF dst = "alias" THEN dstMem ELSE out
    /\ allocs' = 0
    /\ heap' = << >>
    /\ steps' = << >>
    /\ UNCHANGED << ptrNull, w, h, stride, pre, preDst, neon, samples,
                    preSamples, touched, jni, threads, scratch >>

NextAberration == AberrationCall

SpecAberration == InitValid /\ [][NextAberration]_vars

\* C26: chromatic_aberration_rgba8888 with result == source leaves the
\* pixels that the same call leaves in a result buffer of its own: no
\* pixel is sampled from one that the call has already overwritten.
C26_AliasedResultMatchesDistinct ==
    (call.fn = "aberration" /\ call.dst = "alias")
    => SamePixels(mem,
         chromatic_aberration_rgba8888(pre, disp, preDst, FALSE, ptrNull,
           AberrationArgs(w, h, stride, call.scale, call.offsets,
                          call.useBilinear)))

---------------------------------------------------------------------------
(* native-lib.cpp: the JNI entry points                                    *)

\* One thing an entry point does with the bitmap bmp: an
\* AndroidBitmap_lockPixels that succeeds ("lock"), AndroidBitmap_unlockPixels
\* ("unlock"), ThrowNew ("throw").
JniEv(op, bmp) == [op |-> op, bmp |-> bmp, uses |-> {}]

\* The call of the native algorithm on the pixels of the bitmaps uses.
JniInvoke(uses) == [op |-> "invoke", bmp |-> "none", uses |-> uses]

\* How lock_bitmap may go: AndroidBitmap_getInfo fails, the format is not
\* RGBA_8888, a size is 0, AndroidBitmap_lockPixels fails, the pixels are
\* null, or none of these.
LockOutcomes ==
    {"info_fails", "bad_format", "bad_size", "lock_fails", "null_pixels", "ok"}

\* A variant of UnlockPixels that the properties must tell from it: the
\* last bitmap is left out.
UnlockPixelsButLast(bitmaps) ==
    [i \in 1 .. Len(bitmaps) - 1 |-> JniEv("unlock", bitmaps[i])]

\* AndroidBitmap_unlockPixels(env, b) for every b of bitmaps, in order
UnlockPixels(bitmaps) ==
    [i \in 1 .. Len(bitmaps) |-> JniEv("unlock", bitmaps[i])]

\* lock_bitmap(env, bitmap, &info, &pixels): what it returns and what it
\* does on the way.
lock_bitmap(bitmap, outcome) ==
    [ok  |-> outcome = "ok",
     log |-> CASE outcome = "info_fails" -> << >>
               [] outcome \in {"bad_format", "bad_size", "lock_fails"} ->
                    << JniEv("throw", bitmap) >>
               [] outcome = "null_pixels" ->
                    << JniEv("lock", bitmap) >>
                      \o UnlockPixels(<< bitmap >>)
                      \o << JniEv("throw", bitmap) >>
               [] outcome = "ok" -> << JniEv("lock", bitmap) >>]

\* An entry point of one bitmap: lock_bitmap, the algorithm, unlockPixels.
JniSingleLog(outcome) ==
    lock_bitmap("bitmap", outcome).log
      \o (IF lock_bitmap("bitmap", outcome).ok
          THEN << JniInvoke({"bitmap"}) >> \o UnlockPixels(<< "bitmap" >>)
          ELSE << >>)

\* How the lock_bitmap calls of an entry point of n bitmaps may go, one
\* after the other: the entry point returns at the first that fails.
LockRuns(n) ==
    {o \in UNION {[1 .. k -> LockOutcomes] : k \in 1 .. n} :
       /\ \A i \in 1 .. Len(o) - 1 : o[i] = "ok"
       /\ Len(o) < n => o[Len(o)] # "ok"}

\* Every lock_bitmap of the entry point succeeded.
AllLocked(bitmaps, o) == Len(o) = Len(bitmaps) /\ o[Len(o)] = "ok"

\* The lock_bitmap calls from the k-th on.
RECURSIVE LockLogs(_, _, _)
LockLogs(bitmaps, o, k) ==
    IF k > Len(o) THEN << >>
    ELSE lock_bitmap(bitmaps[k], o[k]).log \o LockLogs(bitmaps, o, k + 1)

\* An entry point of several bitmaps: they are locked in order; when a
\* lock_bitmap fails the ones locked before it are unlocked; when the
\* sizes differ all are unlocked and an exception is thrown; else the
\* algorithm runs and all are unlocked.
JniMultiLog(bitmaps, o, mismatch) ==
    LockLogs(bitmaps, o, 1)
      \o (IF ~AllLocked(bitmaps, o)
          THEN UnlockPixels(SubSeq(bitmaps, 1, Len(o) - 1))
          ELSE IF mismatch
          THEN UnlockPixels(bitmaps) \o << JniEv("throw", "none") >>
          ELSE << JniInvoke({bitmaps[i] : i \in DOMAIN bitmaps}) >>
                 \o UnlockPixels(bitmaps))

\* What an entry point of one bitmap leaves: r is what the algorithm
\* returned with, fn the algorithm, c the call.
JniSingleReturn(outcome, r, fn, c) ==
    /\ jni' = JniSingleLog(outcome)
    /\ mem' = r.mem
    /\ allocs' = r.allocs
    /\ heap' = Returned(fn, r.allocs)
    /\ call' = c
    /\ UNCHANGED << ptrNull, w, h, stride, pre, preDst, neon, samples,
                    preSamples, touched, disp, threads, scratch >>

\* What the algorithm returns with when it is not called.
NotInvoked == [mem |-> mem, allocs |-> 0, steps |-> << >>]

\* Parameters of the entry points of one bitmap.
JniSigmas == {5, 100}

JniRadii == {0, 1}

\* NativeGauss.gaussianIIRInplace(bitmap, sigma, linear)
JniGaussCall ==
    /\ call.fn = "none"
    /\ \E outcome \in LockOutcomes, sigma \in JniSigmas, linear \in BOOLEAN :
         \E r \in {IF outcome = "ok"
                   THEN gaussian_iir_rgba8888_inplace(mem, FALSE, w, h, stride,
                                                      sigma, linear)
                   ELSE NotInvoked} :
             JniSingleReturn(outcome, r, "gauss",
                 [NoCall EXCEPT !.fn = "gaussianIIRInplace", !.sigma = sigma,
                                !.linearSpace = linear])
    /\ steps' = << >>
    /\ UNCHANGED dstMem

\* NativeGauss.gaussianIIRNeonInplace(bitmap, sigma, linear)
JniGaussNeonCall ==
    /\ call.fn = "none"
    /\ \E outcome \in LockOutcomes, sigma \in JniSigmas, linear \in BOOLEAN :
         \E r \in {IF outcome = "ok"
                   THEN gaussian_iir_rgba8888_neon(mem, FALSE, w, h, stride,
                                                   sigma, linear, neon)
                   ELSE NotInvoked} :
             JniSingleReturn(outcome, r, "neon",
                 [NoCall EXCEPT !.fn = "gaussianIIRNeonInplace",
                                !.sigma = sigma, !.linearSpace = linear])
    /\ steps' = << >>
    /\ UNCHANGED dstMem

\* NativeGauss.box3Inplace(bitmap, radius)
JniBox3Call ==
    /\ call.fn = "none"
    /\ \E outcome \in LockOutcomes, radius \in JniRadii, g \in {0} :
         \E r \in {IF outcome = "ok"
                   THEN box3_rgba8888_inplace(mem, FALSE, w, h, stride, radius, g)
                   ELSE NotInvoked} :
             JniSingleReturn(outcome, r, "box3",
                 [NoCall EXCEPT !.fn = "box3Inplace", !.radius = radius,
                                !.g = g])
    /\ steps' = << >>
    /\ UNCHANGED dstMem

\* What an entry point of the downsample fast path leaves: the bitmap is
\* both src and dst.
JniAdvReturn(outcome, r, fn, c) ==
    /\ jni' = JniSingleLog(outcome)
    /\ mem' = r.src
    /\ dstMem' = r.dst
    /\ allocs' = r.allocs
    /\ heap' = Returned(fn, r.allocs)
    /\ steps' = r.steps
    /\ call' = c
    /\ UNCHANGED << ptrNull, w, h, stride, pre, preDst, neon, samples,
                    preSamples, touched, disp, threads, scratch >>

\* What the fast path returns with when it is not called.
AdvNotInvoked == [src |-> mem, dst |-> dstMem, allocs |-> 0, steps |-> << >>]

\* Parameters of the entry points of the fast path, in hundredths.
JniAdvRadii == {150}

JniDownscales == {50, 100}

\* NativeGauss.advancedBoxBlurInplace(bitmap, radius, downscale)
JniAdvCall ==
    /\ call.fn = "none"
    /\ \E outcome \in LockOutcomes, radius \in JniAdvRadii,
          downscale \in JniDownscales, g \in {0} :
         \E r \in {IF outcome = "ok"
                   THEN advanced_box_blur_rgba8888(mem, dstMem, FALSE, FALSE,
                            TRUE, w, h, stride, radius, downscale, g)
                   ELSE AdvNotInvoked} :
             JniAdvReturn(outcome, r, "advanced",
                 [NoCall EXCEPT !.fn = "advancedBoxBlurInplace",
                                !.radius = radius, !.downscale = downscale,
                                !.dst = "alias", !.g = g])

\* NativeGauss.advancedBoxBlurInplaceHQ(bitmap, radius, downscale)
JniAdvHqCall ==
    /\ call.fn = "none"
    /\ \E outcome \in LockOutcomes, radius \in JniAdvRadii,
          downscale \in JniDownscales, g \in {0} :
         \E r \in {IF outcome = "ok"
                   THEN advanced_box_blur_rgba8888_hq(mem, dstMem, FALSE, FALSE,
                            TRUE, w, h, stride, radius, downscale, g)
                   ELSE AdvNotInvoked} :
             JniAdvReturn(outcome, r, "advanced_hq",
                 [NoCall EXCEPT !.fn = "advancedBoxBlurInplaceHQ",
                                !.radius = radius, !.downscale = downscale,
                                !.dst = "alias", !.g = g])

\* The bitmaps of chromaticAberrationInplace, in the order it locks them.
\* resultBitmap is "source" when the caller passes one Bitmap as both.
AberrationBitmaps(resultBitmap) == << "source", "displacement", resultBitmap >>

\* NativeChromaticAberration.chromaticAberrationInplace(source,
\* displacement, result, intensity, scale, redOffset, greenOffset,
\* blueOffset, useBilinear).  mismatch: the displacement bitmap is one
\* pixel wider than the source.
JniAberrationCall ==
    /\ call.fn = "none"
    /\ \E o \in LockRuns(3), mismatch \in BOOLEAN,
          resultBitmap \in {"result", "source"}, useBilinear \in BOOLEAN :
         /\ jni' = JniMultiLog(AberrationBitmaps(resultBitmap), o, mismatch)
         /\ disp' = DispMap(127, 128, IF mismatch THEN w + 1 ELSE w, h)
         /\ call' = [NoCall EXCEPT !.fn = "chromaticAberrationInplace",
                        !.dst = IF resultBitmap = "source" THEN "alias"
                                ELSE "distinct",
                        !.scale = 255, !.offsets = << 0, -5, -10 >>,
                        !.useBilinear = useBilinear]
         /\ \E out \in {IF AllLocked(AberrationBitmaps(resultBitmap), o) /\ ~mismatch
                        THEN chromatic_aberration_rgba8888(mem, disp',
                               IF resultBitmap = "source" THEN mem ELSE dstMem,
                               resultBitmap = "source", FALSE,
                               AberrationArgs(w, h, stride, 255,
                                              << 0, -5, -10 >>, useBilinear))
                        ELSE IF resultBitmap = "source" THEN mem ELSE dstMem} :
              /\ mem' = IF resultBitmap = "source" THEN out ELSE mem
              /\ dstMem' = IF resultBitmap = "source" THEN dstMem ELSE out
    /\ allocs' = 0
    /\ heap' = << >>
    /\ steps' = << >>
    /\ UNCHANGED << ptrNull, w, h, stride, pre, preDst, neon, samples,
                    preSamples, touched, threads, scratch >>

\* float distanceToEdge = edgePixel[2] / 255.0f * 500.0f
EdgeDistance(edgeByte) == F32Mul(ScaleFactor(edgeByte), IntToF32(500))

\* float edgeFactor = 0.0f, which stands when nmerged < refThickness is
\* false: the pixel is at least refThickness away from the edge.
EdgeFactorFar == F32Zero

\* x + offsetR_x, and the five like it.  Every offset is a product with
\* edgeFactor as a factor.
DispersedCoord(i, edgeFactor) == F32Add(IntToF32(i), edgeFactor)

\* The four bytes written for the pixel (x, y) of a pixel far from the edge.
DispersionPixel(source, p, x, y) ==
    << SampleChannel(source, p, DispersedCoord(x, EdgeFactorFar),
                     DispersedCoord(y, EdgeFactorFar), 0),
       SampleChannel(source, p, DispersedCoord(x, EdgeFactorFar),
                     DispersedCoord(y, EdgeFactorFar), 1),
       SampleChannel(source, p, DispersedCoord(x, EdgeFactorFar),
                     DispersedCoord(y, EdgeFactorFar), 2),
       source[y * p.sourceStride + x * 4 + 3] >>

\* The pixel loop of chromatic_dispersion_rgba8888 from pixel n on.
RECURSIVE DispersionLoop(_, _, _, _)
DispersionLoop(source, result, p, n) ==
    IF n = p.width * p.height THEN result
    ELSE DispersionLoop(source,
           WritePixel(result, (n \div p.width) * p.resultStride + (n % p.width) * 4,
                      DispersionPixel(source, p, n % p.width, n \div p.width)),
           p, n + 1)

\* Every pixel of the edge distance map is refThickness or more away from
\* the edge.
FarFromEdge(edgeDistance, p, refThickness) ==
    \A n \in 0 .. p.width * p.height - 1 :
        ~F32Lt(EdgeDistance(edgeDistance[(n \div p.width) * p.displacementStride
                                           + (n % p.width) * 4 + 2]),
               IntToF32(refThickness))

\* chromatic_dispersion_rgba8888(source, edgeDistance, normalMap, result,
\* width, ..) on an edge distance map that is FarFromEdge: the bytes at
\* result on return.  p.displacementStride is edgeDistanceStride.
chromatic_dispersion_rgba8888(source, result, anyNull, p) ==
    IF AberrationInvalidArgs(anyNull, p) THEN result
    ELSE Tab(DispersionLoop(source, result, p, 0))

\* A ww x hh map without row padding, every byte of it 255: as far from
\* the edge as a map can say.
EdgeMap(ww, hh) == NewBytes(ww * hh * 4, 255)

\* float refThickness of the call
RefThickness == 100

\* The bitmaps of chromaticDispersionInplace, in the order it locks them.
DispersionBitmaps(hasNormalMap) ==
    IF hasNormalMap THEN << "source", "edgeDistance", "normalMap", "result" >>
    ELSE << "source", "edgeDistance", "result" >>

\* NativeChromaticDispersion.chromaticDispersionInplace(source,
\* edgeDistance, normalMap, result, refThickness, refFactor,
\* refDispersion, dpr, useBilinear).  mismatch: the edge distance bitmap
\* or the normal map is one pixel wider than the source.
JniDispersionCall ==
    /\ call.fn = "none"
    /\ \E hasNormalMap \in BOOLEAN, useBilinear \in BOOLEAN,
          mismatch \in {"none", "edgeDistance", "normalMap"} :
         \E o \in LockRuns(Len(DispersionBitmaps(hasNormalMap))) :
           /\ mismatch = "normalMap" => hasNormalMap
           /\ jni' = JniMultiLog(DispersionBitmaps(hasNormalMap), o,
                                 mismatch # "none")
           /\ disp' = EdgeMap(IF mismatch = "edgeDistance" THEN w + 1 ELSE w, h)
           /\ call' = [NoCall EXCEPT !.fn = "chromaticDispersionInplace",
                                     !.dst = "distinct",
                                     !.useBilinear = useBilinear]
           /\ dstMem' =
                IF AllLocked(DispersionBitmaps(hasNormalMap), o)
                   /\ mismatch = "none"
                   /\ FarFromEdge(disp', AberrationArgs(w, h, stride, 0,
                                     << 0, 0, 0 >>, useBilinear), RefThickness)
                THEN chromatic_dispersion_rgba8888(mem, dstMem, FALSE,
                       AberrationArgs(w, h, stride, 0, << 0, 0, 0 >>,
                                      useBilinear))
                ELSE dstMem
    /\ allocs' = 0
    /\ heap' = << >>
    /\ steps' = << >>
    /\ UNCHANGED << mem, ptrNull, w, h, stride, pre, preDst, neon, samples,
                    preSamples, touched, threads, scratch >>

\* A bitmap and its info, in a build with or without NEON.
InitJni == ValidBuffer /\ NothingCalled /\ neon \in BOOLEAN

NextJni ==
    \/ JniGaussCall
    \/ JniGaussNeonCall
    \/ JniBox3Call
    \/ JniAdvCall
    \/ JniAdvHqCall
    \/ JniAberrationCall
    \/ JniDispersionCall
    \/ NeonCall

\* The JNI entry points and the vectorized entry point they reach.
SpecJni == InitJni /\ [][NextJni]_vars

\* The number of events op on bitmap b among the first n of the log.
JniCount(op, b, n) ==
    Cardinality({i \in 1 .. n : jni[i].op = op /\ jni[i].bmp = b})

\* The bitmaps the entry points know.
JniBitmaps ==
    {"bitmap", "source", "displacement", "edgeDistance", "normalMap", "result"}

\* C25: whatever an entry point of the JNI layer returns with, every
\* bitmap has been unlocked as often as it was locked, none is unlocked
\* more often than locked at any point, and the algorithm is invoked only
\* while every bitmap it works on is locked.
C25_LocksAndUnlocksPair ==
    \A b \in JniBitmaps :
        /\ JniCount("unlock", b, Len(jni)) = JniCount("lock", b, Len(jni))
        /\ \A n \in 1 .. Len(jni) :
             /\ JniCount("unlock", b, n) <= JniCount("lock", b, n)
             /\ (jni[n].op = "invoke" /\ b \in jni[n].uses)
                  => JniCount("unlock", b, n) < JniCount("lock", b, n)

\* C25 witness: chromaticDispersionInplace without a normal map returned
\* after the lock of the result bitmap failed, with the two bitmaps locked
\* before it unlocked again.
C25_Witness ==
    /\ call.fn = "chromaticDispersionInplace"
    /\ jni = << JniEv("lock", "source"), JniEv("lock", "edgeDistance"),
                JniEv("throw", "result"), JniEv("unlock", "source"),
                JniEv("unlock", "edgeDistance") >>

\* The vectorized entry point was reached: called directly, or by
\* gaussianIIRNeonInplace once the bitmap is locked.
NeonEntered ==
    \/ call.fn = "neon"
    \/ call.fn = "gaussianIIRNeonInplace"
         /\ \E n \in DOMAIN jni : jni[n].op = "invoke"

---------------------------------------------------------------------------
(* Two calls on threads of their own                                       *)

Threads == {1, 2}

\* The entry points a thread may be running.
ThreadFns == {"box3", "gauss", "neon", "advanced", "advanced_hq"}

\* The images a thread may be working on.
ThreadImages ==
    {[w |-> 2, h |-> 1, stride |-> 8, pat |-> "step"],
     [w |-> 1, h |-> 2, stride |-> 8, pat |-> "ramp"],
     [w |-> 2, h |-> 2, stride |-> 8, pat |-> "corner"]}

\* The other arguments of the calls: radius of box3, sigma and doLinear,
\* radius and downscale of the fast path (in hundredths).
ThreadArgs ==
    [radius |-> 1, sigma |-> 100, doLinear |-> FALSE, advRadius |-> 150,
     downscale |-> 50]

\* No array allocated.
NoScratch == [a |-> << >>, b |-> << >>]

\* A variant of ScratchOf that the properties must tell from it: the
\* scratch arrays are static, one set for every call.
ScratchShared(t) == 1

\* The arrays a call allocates with new[] are its own: the call on
\* thread t holds the set t.
ScratchOf(t) == t

\* The bytes of buf that the call th was handed: h * stride bytes at its
\* base pointer.
Region(buf, th) == Tab([k \in 0 .. th.h * th.stride - 1 |-> buf[th.at + k]])

\* buf with the bytes of the call th replaced by region.
Store(buf, th, region) ==
    Tab([a \in DOMAIN buf |->
           IF a >= th.at /\ a < th.at + th.h * th.stride
           THEN region[a - th.at] ELSE buf[a]])

\* The steps an entry point takes before it returns.
LastPc(fn) ==
    CASE fn = "box3" -> 5
      [] fn \in {"gauss", "neon"} -> 3
      [] fn \in {"advanced", "advanced_hq"} -> 4

\* box3_rgba8888_inplace, step by step: new[], the three passes, and the
\* memcpy with the delete[].
Box3Step(th, region, s) ==
    CASE th.pc = 0 ->
           [region |-> region, a |-> NewBytes(th.h * th.stride, 0), b |-> << >>]
      [] th.pc \in {1, 3} ->
           [region |-> region,
            a |-> box_blur_single_pass(region, s.a, th.w, th.h, th.stride,
                                       Box3ClampRadius(ThreadArgs.radius), 0),
            b |-> << >>]
      [] th.pc = 2 ->
           [region |-> box_blur_single_pass(s.a, region, th.w, th.h, th.stride,
                                            Box3ClampRadius(ThreadArgs.radius), 0),
            a |-> s.a, b |-> << >>]
      [] th.pc = 4 ->
           [region |-> Memcpy(region, s.a, th.h * th.stride),
            a |-> << >>, b |-> << >>]

\* gaussian_iir_rgba8888_inplace, step by step: new[], the horizontal
\* pass, and the vertical pass with the delete[].
GaussStep(th, region, s) ==
    CASE th.pc = 0 ->
           [region |-> region, a |-> NewFloats(Max(th.w, th.h) * 4), b |-> << >>]
      [] th.pc = 1 ->
           [region |-> blur_horizontal(region, th.w, th.h, th.stride,
                         compute_deriche_coeffs(GaussClampSigma(ThreadArgs.sigma)),
                         s.a, ThreadArgs.doLinear),
            a |-> s.a, b |-> << >>]
      [] th.pc = 2 ->
           [region |-> blur_vertical(region, th.w, th.h, th.stride,
                         compute_deriche_coeffs(GaussClampSigma(ThreadArgs.sigma)),
                         s.a, ThreadArgs.doLinear),
            a |-> << >>, b |-> << >>]

\* gaussian_iir_rgba8888_neon, step by step, in a build with NEON.
NeonStep(th, region, s) ==
    CASE th.pc = 0 ->
           [region |-> region, a |-> NewFloats(Max(th.w, th.h) * 4), b |-> << >>]
      [] th.pc = 1 ->
           [region |-> blur_horizontal_neon(region, th.w, th.h, th.stride,
                         compute_deriche_coeffs(ThreadArgs.sigma), s.a,
                         ThreadArgs.doLinear),
            a |-> s.a, b |-> << >>]
      [] th.pc = 2 ->
           [region |-> blur_vertical_neon(region, th.w, th.h, th.stride,
                         compute_deriche_coeffs(ThreadArgs.sigma), s.a,
                         ThreadArgs.doLinear),
            a |-> << >>, b |-> << >>]

\* The fast path with dst == src, step by step, on a small image of
\* sw x sh pixels: the two new[], downsample, blur, and upsample with the
\* two delete[].
AdvStep(th, region, s, hq, sw, sh, intRadius) ==
    CASE th.pc = 0 ->
           [region |-> region, a |-> NewBytes(sh * sw * 4, 0),
            b |-> NewBytes(sh * sw * 4, 0)]
      [] th.pc = 1 ->
           [region |-> region,
            a |-> AdvDownsample(hq, region, s.a, th.w, th.h, th.stride,
                                sw, sh, sw * 4),
            b |-> s.b]
      [] th.pc = 2 ->
           [region |-> region, a |-> s.a,
            b |-> box_blur_single_pass(s.a, s.b, sw, sh, sw * 4, intRadius, 0)]
      [] th.pc = 3 ->
           [region |-> AdvUpsample(hq, s.b, region, sw, sh, sw * 4,
                                   th.w, th.h, th.stride),
            a |-> << >>, b |-> << >>]

\* The downscale of the thread's call of the fast path, clamped.
ThreadDownscale == AdvClampDownscale(DecimalToF32(ThreadArgs.downscale))

\* The next step of the call th.
StepOf(th, region, s) ==
    CASE th.fn = "box3" -> Box3Step(th, region, s)
      [] th.fn = "gauss" -> GaussStep(th, region, s)
      [] th.fn = "neon" -> NeonStep(th, region, s)
      [] th.fn \in {"advanced", "advanced_hq"} ->
           AdvStep(th, region, s, th.fn = "advanced_hq",
                   SmallSize(th.w, ThreadDownscale),
                   SmallSize(th.h, ThreadDownscale),
                   AdvIntRadius(AdvClampRadius(DecimalToF32(ThreadArgs.advRadius)),
                                ThreadDownscale))

\* What a step of the call on thread t reads or writes: the bytes it was
\* handed and its scratch arrays.
Footprint(t) ==
    {<< "mem", a >> : a \in threads[t].at ..
                         threads[t].at + threads[t].h * threads[t].stride - 1}
      \cup {<< "scratch", ScratchOf(t) >>}

\* Two calls about to start, on two buffers next to each other in memory.
InitThreads ==
    /\ \E f \in [Threads -> ThreadFns], img \in [Threads -> ThreadImages] :
         /\ threads =
              [t \in Threads |->
                 [fn |-> f[t], pc |-> 0,
                  at |-> IF t = 1 THEN 0 ELSE img[1].h * img[1].stride,
                  w |-> img[t].w, h |-> img[t].h, stride |-> img[t].stride,
                  touched |-> {}]]
         /\ mem = Tab([a \in 0 .. img[1].h * img[1].stride
                                    + img[2].h * img[2].stride - 1 |->
                         IF a < img[1].h * img[1].stride
                         THEN Image(img[1].pat, img[1].w, img[1].h,
                                    img[1].stride)[a]
                         ELSE Image(img[2].pat, img[2].w, img[2].h,
                                    img[2].stride)[a - img[1].h * img[1].stride]])
    /\ scratch = [o \in Threads |-> NoScratch]
    /\ pre = mem
    /\ dstMem = << >>
    /\ preDst = << >>
    /\ ptrNull = FALSE
    /\ w = 0
    /\ h = 0
    /\ stride = 0
    /\ call = NoCall
    /\ allocs = 0
    /\ steps = << >>
    /\ neon = TRUE
    /\ samples = << >>
    /\ preSamples = << >>
    /\ touched = NoTouch
    /\ heap = << >>
    /\ disp = << >>
    /\ jni = << >>

\* The call on thread t takes its next step.
ThreadStep(t) ==
    /\ threads[t].pc < LastPc(threads[t].fn)
    /\ \E r \in {StepOf(threads[t], Region(mem, threads[t]),
                        scratch[ScratchOf(t)])} :
         /\ mem' = Store(mem, threads[t], r.region)
         /\ scratch' = [scratch EXCEPT ![ScratchOf(t)] = [a |-> r.a, b |-> r.b]]
    /\ threads' = [threads EXCEPT ![t].pc = @ + 1,
                                  ![t].touched = @ \cup Footprint(t)]
    /\ UNCHANGED << ptrNull, w, h, stride, dstMem, pre, preDst, call, allocs,
                    steps, neon, samples, preSamples, touched, heap, disp, jni >>

\* A step of the scalar or box entry points.
ScalarThreadStep ==
    \E t \in Threads :
        threads[t].fn \in {"box3", "gauss"} /\ ThreadStep(t)

\* A step of the vectorized entry point.
NeonThreadStep ==
    \E t \in Threads : threads[t].fn = "neon" /\ ThreadStep(t)

\* A step of the fast path.
AdvThreadStep ==
    \E t \in Threads :
        threads[t].fn \in {"advanced", "advanced_hq"} /\ ThreadStep(t)

NextThreads ==
    \/ ScalarThreadStep
    \/ NeonThreadStep
    \/ AdvThreadStep

\* Two calls on two buffers, their steps in any order.
SpecThreads == InitThreads /\ [][NextThreads]_vars

\* What the call th leaves of its buffer when it runs with nothing else.
Alone(th, buf) ==
    CASE th.fn = "box3" ->
           box3_rgba8888_inplace(Region(buf, th), FALSE, th.w, th.h, th.stride,
                                 ThreadArgs.radius, 0).mem
      [] th.fn = "gauss" ->
           gaussian_iir_rgba8888_inplace(Region(buf, th), FALSE, th.w, th.h,
               th.stride, ThreadArgs.sigma, ThreadArgs.doLinear).mem
      [] th.fn = "neon" ->
           gaussian_iir_rgba8888_neon(Region(buf, th), FALSE, th.w, th.h,
               th.stride, ThreadArgs.sigma, ThreadArgs.doLinear, TRUE).mem
      [] th.fn = "advanced" ->
           advanced_box_blur_rgba8888(Region(buf, th), Region(buf, th), FALSE,
               FALSE, TRUE, th.w, th.h, th.stride, ThreadArgs.advRadius,
               ThreadArgs.downscale, 0).src
      [] th.fn = "advanced_hq" ->
           advanced_box_blur_rgba8888_hq(Region(buf, th), Region(buf, th), FALSE,
               FALSE, TRUE, th.w, th.h, th.stride, ThreadArgs.advRadius,
               ThreadArgs.downscale, 0).src

\* C21: two engine calls on threads of their own and buffers of their
\* own: whatever the order of their steps, no step of one reads or writes
\* what a step of the other reads or writes, a call that has not started
\* finds its buffer as it was, and a call that has returned leaves the
\* buffer it leaves when it runs alone.
C21_ConcurrentCallsDoNotInterfere ==
    (DOMAIN threads = Threads)
    => /\ threads[1].touched \cap threads[2].touched = {}
       /\ \A t \in Threads :
            /\ threads[t].pc = 0
                 => Region(mem, threads[t]) = Region(pre, threads[t])
            /\ threads[t].pc = LastPc(threads[t].fn)
                 => Region(mem, threads[t]) = Alone(threads[t], pre)

\* C21 witness: box3 on thread 1 is between its second and third pass
\* while the vectorized Gaussian on thread 2 has returned, and both have
\* changed their buffers.
C21_Witness ==
    /\ DOMAIN threads = Threads
    /\ threads[1].fn = "box3" /\ threads[1].pc = 3
    /\ threads[2].fn = "neon" /\ threads[2].pc = LastPc("neon")
    /\ Region(mem, threads[1]) # Region(pre, threads[1])
    /\ Region(mem, threads[2]) # Region(pre, threads[2])
    /\ Region(mem, threads[2]) = Alone(threads[2], pre)

=============================================================================
